---------------------------- MODULE Spec2Model ----------------------------
(***************************************************************************)
(* A model of validator/validator.py (simple-seo-validator): main fetches  *)
(* one page, resolves its encoding, and runs six analyzers over the parsed *)
(* document.                                                               *)
(*                                                                         *)
(* Conventions.  Bytes and characters are integers (byte values, Unicode   *)
(* code points); a str is a sequence of code points, whether it is decoded *)
(* text, a URL, a tag name or an attribute value.  A Python exception that *)
(* an operation may raise is the "exc" field of its result.                *)
(***************************************************************************)
EXTENDS Integers, Sequences, FiniteSets, TLC

VARIABLES
    pc,        \* main's position
    url,       \* the URL given to main
    response,  \* what requests.get will answer for url (or the error it raises)
    page,      \* the document as BeautifulSoup parsed it, None before that
    content,   \* fetch_and_parse's local `content` (the decoded text)
    soup,      \* main's local `soup`: the caller's document object, or None
    calls,     \* the analyzers invoked so far, in order
    ret        \* what each analyzer returned and the result line it printed

vars == <<pc, url, response, page, content, soup, calls, ret>>

(***************************************************************************)
(* Bounds of the model.                                                    *)
(***************************************************************************)
MaxContentLen == 3

(***************************************************************************)
(* Python's codecs (CPython 3.11, on a little-endian machine that is not   *)
(* Windows): every text encoding of the encodings package.                 *)
(* DecodeStep(codec, b, i) reads one character of b at position i and      *)
(* answers [n |-> bytes taken, cp |-> code point], with cp = -1 for an     *)
(* undecodable sequence of n bytes (the span of the UnicodeDecodeError).   *)
(* The code tables of the double-byte codecs are held for the byte pairs   *)
(* over ByteAlphabet; the escape sequences of UTF-7, HZ, ISO-2022 and the  *)
(* unicode_escape codecs begin with bytes that are not in ByteAlphabet and *)
(* are not modelled.                                                       *)
(***************************************************************************)
ReplacementChar == 65533

\* The bytes the responses of the model are made of.
ByteAlphabet == {65, 128, 189, 196, 227, 228, 255}

\* UTF-8: the number of bytes the lead byte b0 announces (0: not a lead byte).
Utf8Need(b0) ==
    IF b0 < 128 THEN 1
    ELSE IF b0 >= 194 /\ b0 <= 223 THEN 2
    ELSE IF b0 >= 224 /\ b0 <= 239 THEN 3
    ELSE IF b0 >= 240 /\ b0 <= 244 THEN 4
    ELSE 0

\* UTF-8: whether c may be byte number k (2..4) after lead byte b0: the second
\* byte's range excludes overlong forms, surrogates and code points past 10FFFF.
Utf8ContOk(b0, k, c) ==
    IF k = 2 THEN
        IF b0 = 224 THEN c >= 160 /\ c <= 191
        ELSE IF b0 = 237 THEN c >= 128 /\ c <= 159
        ELSE IF b0 = 240 THEN c >= 144 /\ c <= 191
        ELSE IF b0 = 244 THEN c >= 128 /\ c <= 143
        ELSE c >= 128 /\ c <= 191
    ELSE c >= 128 /\ c <= 191

RECURSIVE Utf8ValidPrefix(_, _, _, _)
\* The number of bytes of b from position i that form a valid prefix of the
\* character announced by b[i], having checked k of them.
Utf8ValidPrefix(b, i, k, need) ==
    IF k = need \/ i + k > Len(b) THEN k
    ELSE IF Utf8ContOk(b[i], k + 1, b[i + k]) THEN Utf8ValidPrefix(b, i, k + 1, need)
    ELSE k

Utf8Step(b, i) ==
    LET b0   == b[i]
        need == Utf8Need(b0)
    IN  IF need = 0 THEN [n |-> 1, cp |-> -1]
        ELSE IF need = 1 THEN [n |-> 1, cp |-> b0]
        ELSE LET k == Utf8ValidPrefix(b, i, 1, need)
             IN  IF k < need THEN [n |-> k, cp |-> -1]
                 ELSE IF need = 2 THEN
                     [n |-> 2, cp |-> (b0 - 192) * 64 + (b[i + 1] - 128)]
                 ELSE IF need = 3 THEN
                     [n |-> 3, cp |-> (b0 - 224) * 4096 + (b[i + 1] - 128) * 64
                                       + (b[i + 2] - 128)]
                 ELSE
                     [n |-> 4, cp |-> (b0 - 240) * 262144 + (b[i + 1] - 128) * 4096
                                       + (b[i + 2] - 128) * 64 + (b[i + 3] - 128)]

\* The GBK code table, for the two-byte sequences over ByteAlphabet.
GbkTable ==
    (<<189, 65>> :> 32056) @@ (<<189, 128>> :> 32120) @@ (<<189, 189>> :> 27975) @@
    (<<189, 196>> :> 20389) @@ (<<189, 227>> :> 22992) @@ (<<189, 228>> :> 25106) @@
    (<<196, 65>> :> 33089) @@ (<<196, 128>> :> 33191) @@ (<<196, 189>> :> 24917) @@
    (<<196, 196>> :> 21738) @@ (<<196, 227>> :> 20320) @@ (<<196, 228>> :> 21311) @@
    (<<227, 65>> :> 37447) @@ (<<227, 128>> :> 37510) @@ (<<227, 189>> :> 25004) @@
    (<<227, 196>> :> 38579) @@ (<<227, 227>> :> 27811) @@ (<<227, 228>> :> 27781) @@
    (<<228, 65>> :> 37545) @@ (<<228, 128>> :> 37609) @@ (<<228, 189>> :> 28003) @@
    (<<228, 196>> :> 28128) @@ (<<228, 227>> :> 28343) @@ (<<228, 228>> :> 28375)

\* GB2312 holds the rows of GBK whose two bytes are both in A1..FE.
Gb2312Table ==
    [p \in {q \in DOMAIN GbkTable : q[1] >= 161 /\ q[2] >= 161} |-> GbkTable[p]]

\* A double-byte codec: ASCII below 80, else a pair looked up in the table.  A
\* lead byte with no second byte, or a pair the table lacks, is an error of one
\* byte.
DbcsStep(table, b, i) ==
    IF b[i] < 128 THEN [n |-> 1, cp |-> b[i]]
    ELSE IF i + 1 <= Len(b) /\ <<b[i], b[i + 1]>> \in DOMAIN table
         THEN [n |-> 2, cp |-> table[<<b[i], b[i + 1]>>]]
    ELSE [n |-> 1, cp |-> -1]

\* The upper halves (bytes 80 to FF) of the single-byte code pages, -1 where
\* the code page has no character; for a double-byte codec, -1 also for a
\* byte that leads a pair.
SingleByteTables ==
    "cp1252" :>
      << 8364, -1, 8218, 402, 8222, 8230, 8224, 8225, 710, 8240, 352, 8249,
         338, -1, 381, -1, -1, 8216, 8217, 8220, 8221, 8226, 8211, 8212,
         732, 8482, 353, 8250, 339, -1, 382, 376, 160, 161, 162, 163,
         164, 165, 166, 167, 168, 169, 170, 171, 172, 173, 174, 175,
         176, 177, 178, 179, 180, 181, 182, 183, 184, 185, 186, 187,
         188, 189, 190, 191, 192, 193, 194, 195, 196, 197, 198, 199,
         200, 201, 202, 203, 204, 205, 206, 207, 208, 209, 210, 211,
         212, 213, 214, 215, 216, 217, 218, 219, 220, 221, 222, 223,
         224, 225, 226, 227, 228, 229, 230, 231, 232, 233, 234, 235,
         236, 237, 238, 239, 240, 241, 242, 243, 244, 245, 246, 247,
         248, 249, 250, 251, 252, 253, 254, 255 >> @@
    "cp1251" :>
      << 1026, 1027, 8218, 1107, 8222, 8230, 8224, 8225, 8364, 8240, 1033, 8249,
         1034, 1036, 1035, 1039, 1106, 8216, 8217, 8220, 8221, 8226, 8211, 8212,
         -1, 8482, 1113, 8250, 1114, 1116, 1115, 1119, 160, 1038, 1118, 1032,
         164, 1168, 166, 167, 1025, 169, 1028, 171, 172, 173, 174, 1031,
         176, 177, 1030, 1110, 1169, 181, 182, 183, 1105, 8470, 1108, 187,
         1112, 1029, 1109, 1111, 1040, 1041, 1042, 1043, 1044, 1045, 1046, 1047,
         1048, 1049, 1050, 1051, 1052, 1053, 1054, 1055, 1056, 1057, 1058, 1059,
         1060, 1061, 1062, 1063, 1064, 1065, 1066, 1067, 1068, 1069, 1070, 1071,
         1072, 1073, 1074, 1075, 1076, 1077, 1078, 1079, 1080, 1081, 1082, 1083,
         1084, 1085, 1086, 1087, 1088, 1089, 1090, 1091, 1092, 1093, 1094, 1095,
         1096, 1097, 1098, 1099, 1100, 1101, 1102, 1103 >> @@
    "cp855" :>
      << 1106, 1026, 1107, 1027, 1105, 1025, 1108, 1028, 1109, 1029, 1110, 1030,
         1111, 1031, 1112, 1032, 1113, 1033, 1114, 1034, 1115, 1035, 1116, 1036,
         1118, 1038, 1119, 1039, 1102, 1070, 1098, 1066, 1072, 1040, 1073, 1041,
         1094, 1062, 1076, 1044, 1077, 1045, 1092, 1060, 1075, 1043, 171, 187,
         9617, 9618, 9619, 9474, 9508, 1093, 1061, 1080, 1048, 9571, 9553, 9559,
         9565, 1081, 1049, 9488, 9492, 9524, 9516, 9500, 9472, 9532, 1082, 1050,
         9562, 9556, 9577, 9574, 9568, 9552, 9580, 164, 1083, 1051, 1084, 1052,
         1085, 1053, 1086, 1054, 1087, 9496, 9484, 9608, 9604, 1055, 1103, 9600,
         1071, 1088, 1056, 1089, 1057, 1090, 1058, 1091, 1059, 1078, 1046, 1074,
         1042, 1100, 1068, 8470, 173, 1099, 1067, 1079, 1047, 1096, 1064, 1101,
         1069, 1097, 1065, 1095, 1063, 167, 9632, 160 >> @@
    "iso8859_5" :>
      << 128, 129, 130, 131, 132, 133, 134, 135, 136, 137, 138, 139,
         140, 141, 142, 143, 144, 145, 146, 147, 148, 149, 150, 151,
         152, 153, 154, 155, 156, 157, 158, 159, 160, 1025, 1026, 1027,
         1028, 1029, 1030, 1031, 1032, 1033, 1034, 1035, 1036, 173, 1038, 1039,
         1040, 1041, 1042, 1043, 1044, 1045, 1046, 1047, 1048, 1049, 1050, 1051,
         1052, 1053, 1054, 1055, 1056, 1057, 1058, 1059, 1060, 1061, 1062, 1063,
         1064, 1065, 1066, 1067, 1068, 1069, 1070, 1071, 1072, 1073, 1074, 1075,
         1076, 1077, 1078, 1079, 1080, 1081, 1082, 1083, 1084, 1085, 1086, 1087,
         1088, 1089, 1090, 1091, 1092, 1093, 1094, 1095, 1096, 1097, 1098, 1099,
         1100, 1101, 1102, 1103, 8470, 1105, 1106, 1107, 1108, 1109, 1110, 1111,
         1112, 1113, 1114, 1115, 1116, 167, 1118, 1119 >> @@
    "iso8859_7" :>
      << 128, 129, 130, 131, 132, 133, 134, 135, 136, 137, 138, 139,
         140, 141, 142, 143, 144, 145, 146, 147, 148, 149, 150, 151,
         152, 153, 154, 155, 156, 157, 158, 159, 160, 8216, 8217, 163,
         8364, 8367, 166, 167, 168, 169, 890, 171, 172, 173, -1, 8213,
         176, 177, 178, 179, 900, 901, 902, 183, 904, 905, 906, 187,
         908, 189, 910, 911, 912, 913, 914, 915, 916, 917, 918, 919,
         920, 921, 922, 923, 924, 925, 926, 927, 928, 929, -1, 931,
         932, 933, 934, 935, 936, 937, 938, 939, 940, 941, 942, 943,
         944, 945, 946, 947, 948, 949, 950, 951, 952, 953, 954, 955,
         956, 957, 958, 959, 960, 961, 962, 963, 964, 965, 966, 967,
         968, 969, 970, 971, 972, 973, 974, -1 >> @@
    "mac_cyrillic" :>
      << 1040, 1041, 1042, 1043, 1044, 1045, 1046, 1047, 1048, 1049, 1050, 1051,
         1052, 1053, 1054, 1055, 1056, 1057, 1058, 1059, 1060, 1061, 1062, 1063,
         1064, 1065, 1066, 1067, 1068, 1069, 1070, 1071, 8224, 176, 1168, 163,
         167, 8226, 182, 1030, 174, 169, 8482, 1026, 1106, 8800, 1027, 1107,
         8734, 177, 8804, 8805, 1110, 181, 1169, 1032, 1028, 1108, 1031, 1111,
         1033, 1113, 1034, 1114, 1112, 1029, 172, 8730, 402, 8776, 8710, 171,
         187, 8230, 160, 1035, 1115, 1036, 1116, 1109, 8211, 8212, 8220, 8221,
         8216, 8217, 247, 8222, 1038, 1118, 1039, 1119, 8470, 1025, 1105, 1103,
         1072, 1073, 1074, 1075, 1076, 1077, 1078, 1079, 1080, 1081, 1082, 1083,
         1084, 1085, 1086, 1087, 1088, 1089, 1090, 1091, 1092, 1093, 1094, 1095,
         1096, 1097, 1098, 1099, 1100, 1101, 1102, 8364 >> @@
    "cp1253" :>
      << 8364, -1, 8218, 402, 8222, 8230, 8224, 8225, -1, 8240, -1, 8249,
         -1, -1, -1, -1, -1, 8216, 8217, 8220, 8221, 8226, 8211, 8212,
         -1, 8482, -1, 8250, -1, -1, -1, -1, 160, 901, 902, 163,
         164, 165, 166, 167, 168, 169, -1, 171, 172, 173, 174, 8213,
         176, 177, 178, 179, 900, 181, 182, 183, 904, 905, 906, 187,
         908, 189, 910, 911, 912, 913, 914, 915, 916, 917, 918, 919,
         920, 921, 922, 923, 924, 925, 926, 927, 928, 929, -1, 931,
         932, 933, 934, 935, 936, 937, 938, 939, 940, 941, 942, 943,
         944, 945, 946, 947, 948, 949, 950, 951, 952, 953, 954, 955,
         956, 957, 958, 959, 960, 961, 962, 963, 964, 965, 966, 967,
         968, 969, 970, 971, 972, 973, 974, -1 >> @@
    "cp1255" :>
      << 8364, -1, 8218, 402, 8222, 8230, 8224, 8225, 710, 8240, -1, 8249,
         -1, -1, -1, -1, -1, 8216, 8217, 8220, 8221, 8226, 8211, 8212,
         732, 8482, -1, 8250, -1, -1, -1, -1, 160, 161, 162, 163,
         8362, 165, 166, 167, 168, 169, 215, 171, 172, 173, 174, 175,
         176, 177, 178, 179, 180, 181, 182, 183, 184, 185, 247, 187,
         188, 189, 190, 191, 1456, 1457, 1458, 1459, 1460, 1461, 1462, 1463,
         1464, 1465, -1, 1467, 1468, 1469, 1470, 1471, 1472, 1473, 1474, 1475,
         1520, 1521, 1522, 1523, 1524, -1, -1, -1, -1, -1, -1, -1,
         1488, 1489, 1490, 1491, 1492, 1493, 1494, 1495, 1496, 1497, 1498, 1499,
         1500, 1501, 1502, 1503, 1504, 1505, 1506, 1507, 1508, 1509, 1510, 1511,
         1512, 1513, 1514, -1, -1, 8206, 8207, -1 >> @@
    "koi8_r" :>
      << 9472, 9474, 9484, 9488, 9492, 9496, 9500, 9508, 9516, 9524, 9532, 9600,
         9604, 9608, 9612, 9616, 9617, 9618, 9619, 8992, 9632, 8729, 8730, 8776,
         8804, 8805, 160, 8993, 176, 178, 183, 247, 9552, 9553, 9554, 1105,
         9555, 9556, 9557, 9558, 9559, 9560, 9561, 9562, 9563, 9564, 9565, 9566,
         9567, 9568, 9569, 1025, 9570, 9571, 9572, 9573, 9574, 9575, 9576, 9577,
         9578, 9579, 9580, 169, 1102, 1072, 1073, 1094, 1076, 1077, 1092, 1075,
         1093, 1080, 1081, 1082, 1083, 1084, 1085, 1086, 1087, 1103, 1088, 1089,
         1090, 1091, 1078, 1074, 1100, 1099, 1079, 1096, 1101, 1097, 1095, 1098,
         1070, 1040, 1041, 1062, 1044, 1045, 1060, 1043, 1061, 1048, 1049, 1050,
         1051, 1052, 1053, 1054, 1055, 1071, 1056, 1057, 1058, 1059, 1046, 1042,
         1068, 1067, 1047, 1064, 1069, 1065, 1063, 1066 >> @@
    "cp866" :>
      << 1040, 1041, 1042, 1043, 1044, 1045, 1046, 1047, 1048, 1049, 1050, 1051,
         1052, 1053, 1054, 1055, 1056, 1057, 1058, 1059, 1060, 1061, 1062, 1063,
         1064, 1065, 1066, 1067, 1068, 1069, 1070, 1071, 1072, 1073, 1074, 1075,
         1076, 1077, 1078, 1079, 1080, 1081, 1082, 1083, 1084, 1085, 1086, 1087,
         9617, 9618, 9619, 9474, 9508, 9569, 9570, 9558, 9557, 9571, 9553, 9559,
         9565, 9564, 9563, 9488, 9492, 9524, 9516, 9500, 9472, 9532, 9566, 9567,
         9562, 9556, 9577, 9574, 9568, 9552, 9580, 9575, 9576, 9572, 9573, 9561,
         9560, 9554, 9555, 9579, 9578, 9496, 9484, 9608, 9604, 9612, 9616, 9600,
         1088, 1089, 1090, 1091, 1092, 1093, 1094, 1095, 1096, 1097, 1098, 1099,
         1100, 1101, 1102, 1103, 1025, 1105, 1028, 1108, 1031, 1111, 1038, 1118,
         176, 8729, 183, 8730, 8470, 164, 9632, 160 >> @@
    "iso8859_8" :>
      << 128, 129, 130, 131, 132, 133, 134, 135, 136, 137, 138, 139,
         140, 141, 142, 143, 144, 145, 146, 147, 148, 149, 150, 151,
         152, 153, 154, 155, 156, 157, 158, 159, 160, -1, 162, 163,
         164, 165, 166, 167, 168, 169, 215, 171, 172, 173, 174, 175,
         176, 177, 178, 179, 180, 181, 182, 183, 184, 185, 247, 187,
         188, 189, 190, -1, -1, -1, -1, -1, -1, -1, -1, -1,
         -1, -1, -1, -1, -1, -1, -1, -1, -1, -1, -1, -1,
         -1, -1, -1, -1, -1, -1, -1, -1, -1, -1, -1, 8215,
         1488, 1489, 1490, 1491, 1492, 1493, 1494, 1495, 1496, 1497, 1498, 1499,
         1500, 1501, 1502, 1503, 1504, 1505, 1506, 1507, 1508, 1509, 1510, 1511,
         1512, 1513, 1514, -1, -1, 8206, 8207, -1 >> @@
    "iso8859_9" :>
      << 128, 129, 130, 131, 132, 133, 134, 135, 136, 137, 138, 139,
         140, 141, 142, 143, 144, 145, 146, 147, 148, 149, 150, 151,
         152, 153, 154, 155, 156, 157, 158, 159, 160, 161, 162, 163,
         164, 165, 166, 167, 168, 169, 170, 171, 172, 173, 174, 175,
         176, 177, 178, 179, 180, 181, 182, 183, 184, 185, 186, 187,
         188, 189, 190, 191, 192, 193, 194, 195, 196, 197, 198, 199,
         200, 201, 202, 203, 204, 205, 206, 207, 286, 209, 210, 211,
         212, 213, 214, 215, 216, 217, 218, 219, 220, 304, 350, 223,
         224, 225, 226, 227, 228, 229, 230, 231, 232, 233, 234, 235,
         236, 237, 238, 239, 287, 241, 242, 243, 244, 245, 246, 247,
         248, 249, 250, 251, 252, 305, 351, 255 >> @@
    "cp1254" :>
      << 8364, -1, 8218, 402, 8222, 8230, 8224, 8225, 710, 8240, 352, 8249,
         338, -1, -1, -1, -1, 8216, 8217, 8220, 8221, 8226, 8211, 8212,
         732, 8482, 353, 8250, 339, -1, -1, 376, 160, 161, 162, 163,
         164, 165, 166, 167, 168, 169, 170, 171, 172, 173, 174, 175,
         176, 177, 178, 179, 180, 181, 182, 183, 184, 185, 186, 187,
         188, 189, 190, 191, 192, 193, 194, 195, 196, 197, 198, 199,
         200, 201, 202, 203, 204, 205, 206, 207, 286, 209, 210, 211,
         212, 213, 214, 215, 216, 217, 218, 219, 220, 304, 350, 223,
         224, 225, 226, 227, 228, 229, 230, 231, 232, 233, 234, 235,
         236, 237, 238, 239, 287, 241, 242, 243, 244, 245, 246, 247,
         248, 249, 250, 251, 252, 305, 351, 255 >> @@
    "cp1250" :>
      << 8364, -1, 8218, -1, 8222, 8230, 8224, 8225, -1, 8240, 352, 8249,
         346, 356, 381, 377, -1, 8216, 8217, 8220, 8221, 8226, 8211, 8212,
         -1, 8482, 353, 8250, 347, 357, 382, 378, 160, 711, 728, 321,
         164, 260, 166, 167, 168, 169, 350, 171, 172, 173, 174, 379,
         176, 177, 731, 322, 180, 181, 182, 183, 184, 261, 351, 187,
         317, 733, 318, 380, 340, 193, 194, 258, 196, 313, 262, 199,
         268, 201, 280, 203, 282, 205, 206, 270, 272, 323, 327, 211,
         212, 336, 214, 215, 344, 366, 218, 368, 220, 221, 354, 223,
         341, 225, 226, 259, 228, 314, 263, 231, 269, 233, 281, 235,
         283, 237, 238, 271, 273, 324, 328, 243, 244, 337, 246, 247,
         345, 367, 250, 369, 252, 253, 355, 729 >> @@
    "iso8859_2" :>
      << 128, 129, 130, 131, 132, 133, 134, 135, 136, 137, 138, 139,
         140, 141, 142, 143, 144, 145, 146, 147, 148, 149, 150, 151,
         152, 153, 154, 155, 156, 157, 158, 159, 160, 260, 728, 321,
         164, 317, 346, 167, 168, 352, 350, 356, 377, 173, 381, 379,
         176, 261, 731, 322, 180, 318, 347, 711, 184, 353, 351, 357,
         378, 733, 382, 380, 340, 193, 194, 258, 196, 313, 262, 199,
         268, 201, 280, 203, 282, 205, 206, 270, 272, 323, 327, 211,
         212, 336, 214, 215, 344, 366, 218, 368, 220, 221, 354, 223,
         341, 225, 226, 259, 228, 314, 263, 231, 269, 233, 281, 235,
         283, 237, 238, 271, 273, 324, 328, 243, 244, 337, 246, 247,
         345, 367, 250, 369, 252, 253, 355, 729 >> @@
    "iso8859_15" :>
      << 128, 129, 130, 131, 132, 133, 134, 135, 136, 137, 138, 139,
         140, 141, 142, 143, 144, 145, 146, 147, 148, 149, 150, 151,
         152, 153, 154, 155, 156, 157, 158, 159, 160, 161, 162, 163,
         8364, 165, 352, 167, 353, 169, 170, 171, 172, 173, 174, 175,
         176, 177, 178, 179, 381, 181, 182, 183, 382, 185, 186, 187,
         338, 339, 376, 191, 192, 193, 194, 195, 196, 197, 198, 199,
         200, 201, 202, 203, 204, 205, 206, 207, 208, 209, 210, 211,
         212, 213, 214, 215, 216, 217, 218, 219, 220, 221, 222, 223,
         224, 225, 226, 227, 228, 229, 230, 231, 232, 233, 234, 235,
         236, 237, 238, 239, 240, 241, 242, 243, 244, 245, 246, 247,
         248, 249, 250, 251, 252, 253, 254, 255 >> @@
    "tis_620" :>
      << 128, 129, 130, 131, 132, 133, 134, 135, 136, 137, 138, 139,
         140, 141, 142, 143, 144, 145, 146, 147, 148, 149, 150, 151,
         152, 153, 154, 155, 156, 157, 158, 159, -1, 3585, 3586, 3587,
         3588, 3589, 3590, 3591, 3592, 3593, 3594, 3595, 3596, 3597, 3598, 3599,
         3600, 3601, 3602, 3603, 3604, 3605, 3606, 3607, 3608, 3609, 3610, 3611,
         3612, 3613, 3614, 3615, 3616, 3617, 3618, 3619, 3620, 3621, 3622, 3623,
         3624, 3625, 3626, 3627, 3628, 3629, 3630, 3631, 3632, 3633, 3634, 3635,
         3636, 3637, 3638, 3639, 3640, 3641, 3642, -1, -1, -1, -1, 3647,
         3648, 3649, 3650, 3651, 3652, 3653, 3654, 3655, 3656, 3657, 3658, 3659,
         3660, 3661, 3662, 3663, 3664, 3665, 3666, 3667, 3668, 3669, 3670, 3671,
         3672, 3673, 3674, 3675, -1, -1, -1, -1 >> @@
    "cp874" :>
      << 8364, -1, -1, -1, -1, 8230, -1, -1, -1, -1, -1, -1,
         -1, -1, -1, -1, -1, 8216, 8217, 8220, 8221, 8226, 8211, 8212,
         -1, -1, -1, -1, -1, -1, -1, -1, 160, 3585, 3586, 3587,
         3588, 3589, 3590, 3591, 3592, 3593, 3594, 3595, 3596, 3597, 3598, 3599,
         3600, 3601, 3602, 3603, 3604, 3605, 3606, 3607, 3608, 3609, 3610, 3611,
         3612, 3613, 3614, 3615, 3616, 3617, 3618, 3619, 3620, 3621, 3622, 3623,
         3624, 3625, 3626, 3627, 3628, 3629, 3630, 3631, 3632, 3633, 3634, 3635,
         3636, 3637, 3638, 3639, 3640, 3641, 3642, -1, -1, -1, -1, 3647,
         3648, 3649, 3650, 3651, 3652, 3653, 3654, 3655, 3656, 3657, 3658, 3659,
         3660, 3661, 3662, 3663, 3664, 3665, 3666, 3667, 3668, 3669, 3670, 3671,
         3672, 3673, 3674, 3675, -1, -1, -1, -1 >> @@
    "mac_roman" :>
      << 196, 197, 199, 201, 209, 214, 220, 225, 224, 226, 228, 227,
         229, 231, 233, 232, 234, 235, 237, 236, 238, 239, 241, 243,
         242, 244, 246, 245, 250, 249, 251, 252, 8224, 176, 162, 163,
         167, 8226, 182, 223, 174, 169, 8482, 180, 168, 8800, 198, 216,
         8734, 177, 8804, 8805, 165, 181, 8706, 8721, 8719, 960, 8747, 170,
         186, 937, 230, 248, 191, 161, 172, 8730, 402, 8776, 8710, 171,
         187, 8230, 160, 192, 195, 213, 338, 339, 8211, 8212, 8220, 8221,
         8216, 8217, 247, 9674, 255, 376, 8260, 8364, 8249, 8250, 64257, 64258,
         8225, 183, 8218, 8222, 8240, 194, 202, 193, 203, 200, 205, 206,
         207, 204, 211, 212, 63743, 210, 218, 219, 217, 305, 710, 732,
         175, 728, 729, 730, 184, 733, 731, 711 >> @@
    "cp037" :>
      << 216, 97, 98, 99, 100, 101, 102, 103, 104, 105, 171, 187,
         240, 253, 254, 177, 176, 106, 107, 108, 109, 110, 111, 112,
         113, 114, 170, 186, 230, 184, 198, 164, 181, 126, 115, 116,
         117, 118, 119, 120, 121, 122, 161, 191, 208, 221, 222, 174,
         94, 163, 165, 183, 169, 167, 182, 188, 189, 190, 91, 93,
         175, 168, 180, 215, 123, 65, 66, 67, 68, 69, 70, 71,
         72, 73, 173, 244, 246, 242, 243, 245, 125, 74, 75, 76,
         77, 78, 79, 80, 81, 82, 185, 251, 252, 249, 250, 255,
         92, 247, 83, 84, 85, 86, 87, 88, 89, 90, 178, 212,
         214, 210, 211, 213, 48, 49, 50, 51, 52, 53, 54, 55,
         56, 57, 179, 219, 220, 217, 218, 159 >> @@
    "cp1006" :>
      << 128, 129, 130, 131, 132, 133, 134, 135, 136, 137, 138, 139,
         140, 141, 142, 143, 144, 145, 146, 147, 148, 149, 150, 151,
         152, 153, 154, 155, 156, 157, 158, 159, 160, 1776, 1777, 1778,
         1779, 1780, 1781, 1782, 1783, 1784, 1785, 1548, 1563, 173, 1567, 65153,
         65165, 65166, 65166, 65167, 65169, 64342, 64344, 65171, 65173, 65175, 64358, 64360,
         65177, 65179, 65181, 65183, 64378, 64380, 65185, 65187, 65189, 65191, 65193, 64388,
         65195, 65197, 64396, 65199, 64394, 65201, 65203, 65205, 65207, 65209, 65211, 65213,
         65215, 65217, 65221, 65225, 65226, 65227, 65228, 65229, 65230, 65231, 65232, 65233,
         65235, 65237, 65239, 65241, 65243, 64402, 64404, 65245, 65247, 65248, 65249, 65251,
         64414, 65253, 65255, 65157, 65261, 64422, 64424, 64425, 64426, 65152, 65161, 65162,
         65163, 65265, 65266, 65267, 64432, 64430, 65148, 65149 >> @@
    "cp1026" :>
      << 216, 97, 98, 99, 100, 101, 102, 103, 104, 105, 171, 187,
         125, 96, 166, 177, 176, 106, 107, 108, 109, 110, 111, 112,
         113, 114, 170, 186, 230, 184, 198, 164, 181, 246, 115, 116,
         117, 118, 119, 120, 121, 122, 161, 191, 93, 36, 64, 174,
         162, 163, 165, 183, 169, 167, 182, 188, 189, 190, 172, 124,
         175, 168, 180, 215, 231, 65, 66, 67, 68, 69, 70, 71,
         72, 73, 173, 244, 126, 242, 243, 245, 287, 74, 75, 76,
         77, 78, 79, 80, 81, 82, 185, 251, 92, 249, 250, 255,
         252, 247, 83, 84, 85, 86, 87, 88, 89, 90, 178, 212,
         35, 210, 211, 213, 48, 49, 50, 51, 52, 53, 54, 55,
         56, 57, 179, 219, 34, 217, 218, 159 >> @@
    "cp1125" :>
      << 1040, 1041, 1042, 1043, 1044, 1045, 1046, 1047, 1048, 1049, 1050, 1051,
         1052, 1053, 1054, 1055, 1056, 1057, 1058, 1059, 1060, 1061, 1062, 1063,
         1064, 1065, 1066, 1067, 1068, 1069, 1070, 1071, 1072, 1073, 1074, 1075,
         1076, 1077, 1078, 1079, 1080, 1081, 1082, 1083, 1084, 1085, 1086, 1087,
         9617, 9618, 9619, 9474, 9508, 9569, 9570, 9558, 9557, 9571, 9553, 9559,
         9565, 9564, 9563, 9488, 9492, 9524, 9516, 9500, 9472, 9532, 9566, 9567,
         9562, 9556, 9577, 9574, 9568, 9552, 9580, 9575, 9576, 9572, 9573, 9561,
         9560, 9554, 9555, 9579, 9578, 9496, 9484, 9608, 9604, 9612, 9616, 9600,
         1088, 1089, 1090, 1091, 1092, 1093, 1094, 1095, 1096, 1097, 1098, 1099,
         1100, 1101, 1102, 1103, 1025, 1105, 1168, 1169, 1028, 1108, 1030, 1110,
         1031, 1111, 183, 8730, 8470, 164, 9632, 160 >> @@
    "cp1140" :>
      << 216, 97, 98, 99, 100, 101, 102, 103, 104, 105, 171, 187,
         240, 253, 254, 177, 176, 106, 107, 108, 109, 110, 111, 112,
         113, 114, 170, 186, 230, 184, 198, 8364, 181, 126, 115, 116,
         117, 118, 119, 120, 121, 122, 161, 191, 208, 221, 222, 174,
         94, 163, 165, 183, 169, 167, 182, 188, 189, 190, 91, 93,
         175, 168, 180, 215, 123, 65, 66, 67, 68, 69, 70, 71,
         72, 73, 173, 244, 246, 242, 243, 245, 125, 74, 75, 76,
         77, 78, 79, 80, 81, 82, 185, 251, 252, 249, 250, 255,
         92, 247, 83, 84, 85, 86, 87, 88, 89, 90, 178, 212,
         214, 210, 211, 213, 48, 49, 50, 51, 52, 53, 54, 55,
         56, 57, 179, 219, 220, 217, 218, 159 >> @@
    "cp1256" :>
      << 8364, 1662, 8218, 402, 8222, 8230, 8224, 8225, 710, 8240, 1657, 8249,
         338, 1670, 1688, 1672, 1711, 8216, 8217, 8220, 8221, 8226, 8211, 8212,
         1705, 8482, 1681, 8250, 339, 8204, 8205, 1722, 160, 1548, 162, 163,
         164, 165, 166, 167, 168, 169, 1726, 171, 172, 173, 174, 175,
         176, 177, 178, 179, 180, 181, 182, 183, 184, 185, 1563, 187,
         188, 189, 190, 1567, 1729, 1569, 1570, 1571, 1572, 1573, 1574, 1575,
         1576, 1577, 1578, 1579, 1580, 1581, 1582, 1583, 1584, 1585, 1586, 1587,
         1588, 1589, 1590, 215, 1591, 1592, 1593, 1594, 1600, 1601, 1602, 1603,
         224, 1604, 226, 1605, 1606, 1607, 1608, 231, 232, 233, 234, 235,
         1609, 1610, 238, 239, 1611, 1612, 1613, 1614, 244, 1615, 1616, 247,
         1617, 249, 1618, 251, 252, 8206, 8207, 1746 >> @@
    "cp1257" :>
      << 8364, -1, 8218, -1, 8222, 8230, 8224, 8225, -1, 8240, -1, 8249,
         -1, 168, 711, 184, -1, 8216, 8217, 8220, 8221, 8226, 8211, 8212,
         -1, 8482, -1, 8250, -1, 175, 731, -1, 160, -1, 162, 163,
         164, -1, 166, 167, 216, 169, 342, 171, 172, 173, 174, 198,
         176, 177, 178, 179, 180, 181, 182, 183, 248, 185, 343, 187,
         188, 189, 190, 230, 260, 302, 256, 262, 196, 197, 280, 274,
         268, 201, 377, 278, 290, 310, 298, 315, 352, 323, 325, 211,
         332, 213, 214, 215, 370, 321, 346, 362, 220, 379, 381, 223,
         261, 303, 257, 263, 228, 229, 281, 275, 269, 233, 378, 279,
         291, 311, 299, 316, 353, 324, 326, 243, 333, 245, 246, 247,
         371, 322, 347, 363, 252, 380, 382, 729 >> @@
    "cp1258" :>
      << 8364, -1, 8218, 402, 8222, 8230, 8224, 8225, 710, 8240, -1, 8249,
         338, -1, -1, -1, -1, 8216, 8217, 8220, 8221, 8226, 8211, 8212,
         732, 8482, -1, 8250, 339, -1, -1, 376, 160, 161, 162, 163,
         164, 165, 166, 167, 168, 169, 170, 171, 172, 173, 174, 175,
         176, 177, 178, 179, 180, 181, 182, 183, 184, 185, 186, 187,
         188, 189, 190, 191, 192, 193, 194, 258, 196, 197, 198, 199,
         200, 201, 202, 203, 768, 205, 206, 207, 272, 209, 777, 211,
         212, 416, 214, 215, 216, 217, 218, 219, 220, 431, 771, 223,
         224, 225, 226, 259, 228, 229, 230, 231, 232, 233, 234, 235,
         769, 237, 238, 239, 273, 241, 803, 243, 244, 417, 246, 247,
         248, 249, 250, 251, 252, 432, 8363, 255 >> @@
    "cp273" :>
      << 216, 97, 98, 99, 100, 101, 102, 103, 104, 105, 171, 187,
         240, 253, 254, 177, 176, 106, 107, 108, 109, 110, 111, 112,
         113, 114, 170, 186, 230, 184, 198, 164, 181, 223, 115, 116,
         117, 118, 119, 120, 121, 122, 161, 191, 208, 221, 222, 174,
         162, 163, 165, 183, 169, 64, 182, 188, 189, 190, 172, 124,
         8254, 168, 180, 215, 228, 65, 66, 67, 68, 69, 70, 71,
         72, 73, 173, 244, 166, 242, 243, 245, 252, 74, 75, 76,
         77, 78, 79, 80, 81, 82, 185, 251, 125, 249, 250, 255,
         214, 247, 83, 84, 85, 86, 87, 88, 89, 90, 178, 212,
         92, 210, 211, 213, 48, 49, 50, 51, 52, 53, 54, 55,
         56, 57, 179, 219, 93, 217, 218, 159 >> @@
    "cp424" :>
      << -1, 97, 98, 99, 100, 101, 102, 103, 104, 105, 171, 187,
         -1, -1, -1, 177, 176, 106, 107, 108, 109, 110, 111, 112,
         113, 114, -1, -1, -1, 184, -1, 164, 181, 126, 115, 116,
         117, 118, 119, 120, 121, 122, -1, -1, -1, -1, -1, 174,
         94, 163, 165, 183, 169, 167, 182, 188, 189, 190, 91, 93,
         175, 168, 180, 215, 123, 65, 66, 67, 68, 69, 70, 71,
         72, 73, 173, -1, -1, -1, -1, -1, 125, 74, 75, 76,
         77, 78, 79, 80, 81, 82, 185, -1, -1, -1, -1, -1,
         92, 247, 83, 84, 85, 86, 87, 88, 89, 90, 178, -1,
         -1, -1, -1, -1, 48, 49, 50, 51, 52, 53, 54, 55,
         56, 57, 179, -1, -1, -1, -1, 159 >> @@
    "cp437" :>
      << 199, 252, 233, 226, 228, 224, 229, 231, 234, 235, 232, 239,
         238, 236, 196, 197, 201, 230, 198, 244, 246, 242, 251, 249,
         255, 214, 220, 162, 163, 165, 8359, 402, 225, 237, 243, 250,
         241, 209, 170, 186, 191, 8976, 172, 189, 188, 161, 171, 187,
         9617, 9618, 9619, 9474, 9508, 9569, 9570, 9558, 9557, 9571, 9553, 9559,
         9565, 9564, 9563, 9488, 9492, 9524, 9516, 9500, 9472, 9532, 9566, 9567,
         9562, 9556, 9577, 9574, 9568, 9552, 9580, 9575, 9576, 9572, 9573, 9561,
         9560, 9554, 9555, 9579, 9578, 9496, 9484, 9608, 9604, 9612, 9616, 9600,
         945, 223, 915, 960, 931, 963, 181, 964, 934, 920, 937, 948,
         8734, 966, 949, 8745, 8801, 177, 8805, 8804, 8992, 8993, 247, 8776,
         176, 8729, 183, 8730, 8319, 178, 9632, 160 >> @@
    "cp500" :>
      << 216, 97, 98, 99, 100, 101, 102, 103, 104, 105, 171, 187,
         240, 253, 254, 177, 176, 106, 107, 108, 109, 110, 111, 112,
         113, 114, 170, 186, 230, 184, 198, 164, 181, 126, 115, 116,
         117, 118, 119, 120, 121, 122, 161, 191, 208, 221, 222, 174,
         162, 163, 165, 183, 169, 167, 182, 188, 189, 190, 172, 124,
         175, 168, 180, 215, 123, 65, 66, 67, 68, 69, 70, 71,
         72, 73, 173, 244, 246, 242, 243, 245, 125, 74, 75, 76,
         77, 78, 79, 80, 81, 82, 185, 251, 252, 249, 250, 255,
         92, 247, 83, 84, 85, 86, 87, 88, 89, 90, 178, 212,
         214, 210, 211, 213, 48, 49, 50, 51, 52, 53, 54, 55,
         56, 57, 179, 219, 220, 217, 218, 159 >> @@
    "cp720" :>
      << 128, 129, 233, 226, 132, 224, 134, 231, 234, 235, 232, 239,
         238, 141, 142, 143, 144, 1617, 1618, 244, 164, 1600, 251, 249,
         1569, 1570, 1571, 1572, 163, 1573, 1574, 1575, 1576, 1577, 1578, 1579,
         1580, 1581, 1582, 1583, 1584, 1585, 1586, 1587, 1588, 1589, 171, 187,
         9617, 9618, 9619, 9474, 9508, 9569, 9570, 9558, 9557, 9571, 9553, 9559,
         9565, 9564, 9563, 9488, 9492, 9524, 9516, 9500, 9472, 9532, 9566, 9567,
         9562, 9556, 9577, 9574, 9568, 9552, 9580, 9575, 9576, 9572, 9573, 9561,
         9560, 9554, 9555, 9579, 9578, 9496, 9484, 9608, 9604, 9612, 9616, 9600,
         1590, 1591, 1592, 1593, 1594, 1601, 181, 1602, 1603, 1604, 1605, 1606,
         1607, 1608, 1609, 1610, 8801, 1611, 1612, 1613, 1614, 1615, 1616, 8776,
         176, 8729, 183, 8730, 8319, 178, 9632, 160 >> @@
    "cp737" :>
      << 913, 914, 915, 916, 917, 918, 919, 920, 921, 922, 923, 924,
         925, 926, 927, 928, 929, 931, 932, 933, 934, 935, 936, 937,
         945, 946, 947, 948, 949, 950, 951, 952, 953, 954, 955, 956,
         957, 958, 959, 960, 961, 963, 962, 964, 965, 966, 967, 968,
         9617, 9618, 9619, 9474, 9508, 9569, 9570, 9558, 9557, 9571, 9553, 9559,
         9565, 9564, 9563, 9488, 9492, 9524, 9516, 9500, 9472, 9532, 9566, 9567,
         9562, 9556, 9577, 9574, 9568, 9552, 9580, 9575, 9576, 9572, 9573, 9561,
         9560, 9554, 9555, 9579, 9578, 9496, 9484, 9608, 9604, 9612, 9616, 9600,
         969, 940, 941, 942, 970, 943, 972, 973, 971, 974, 902, 904,
         905, 906, 908, 910, 911, 177, 8805, 8804, 938, 939, 247, 8776,
         176, 8729, 183, 8730, 8319, 178, 9632, 160 >> @@
    "cp775" :>
      << 262, 252, 233, 257, 228, 291, 229, 263, 322, 275, 342, 343,
         299, 377, 196, 197, 201, 230, 198, 333, 246, 290, 162, 346,
         347, 214, 220, 248, 163, 216, 215, 164, 256, 298, 243, 379,
         380, 378, 8221, 166, 169, 174, 172, 189, 188, 321, 171, 187,
         9617, 9618, 9619, 9474, 9508, 260, 268, 280, 278, 9571, 9553, 9559,
         9565, 302, 352, 9488, 9492, 9524, 9516, 9500, 9472, 9532, 370, 362,
         9562, 9556, 9577, 9574, 9568, 9552, 9580, 381, 261, 269, 281, 279,
         303, 353, 371, 363, 382, 9496, 9484, 9608, 9604, 9612, 9616, 9600,
         211, 223, 332, 323, 245, 213, 181, 324, 310, 311, 315, 316,
         326, 274, 325, 8217, 173, 177, 8220, 190, 182, 167, 247, 8222,
         176, 8729, 183, 185, 179, 178, 9632, 160 >> @@
    "cp850" :>
      << 199, 252, 233, 226, 228, 224, 229, 231, 234, 235, 232, 239,
         238, 236, 196, 197, 201, 230, 198, 244, 246, 242, 251, 249,
         255, 214, 220, 248, 163, 216, 215, 402, 225, 237, 243, 250,
         241, 209, 170, 186, 191, 174, 172, 189, 188, 161, 171, 187,
         9617, 9618, 9619, 9474, 9508, 193, 194, 192, 169, 9571, 9553, 9559,
         9565, 162, 165, 9488, 9492, 9524, 9516, 9500, 9472, 9532, 227, 195,
         9562, 9556, 9577, 9574, 9568, 9552, 9580, 164, 240, 208, 202, 203,
         200, 305, 205, 206, 207, 9496, 9484, 9608, 9604, 166, 204, 9600,
         211, 223, 212, 210, 245, 213, 181, 254, 222, 218, 219, 217,
         253, 221, 175, 180, 173, 177, 8215, 190, 182, 167, 247, 184,
         176, 168, 183, 185, 179, 178, 9632, 160 >> @@
    "cp852" :>
      << 199, 252, 233, 226, 228, 367, 263, 231, 322, 235, 336, 337,
         238, 377, 196, 262, 201, 313, 314, 244, 246, 317, 318, 346,
         347, 214, 220, 356, 357, 321, 215, 269, 225, 237, 243, 250,
         260, 261, 381, 382, 280, 281, 172, 378, 268, 351, 171, 187,
         9617, 9618, 9619, 9474, 9508, 193, 194, 282, 350, 9571, 9553, 9559,
         9565, 379, 380, 9488, 9492, 9524, 9516, 9500, 9472, 9532, 258, 259,
         9562, 9556, 9577, 9574, 9568, 9552, 9580, 164, 273, 272, 270, 203,
         271, 327, 205, 206, 283, 9496, 9484, 9608, 9604, 354, 366, 9600,
         211, 223, 212, 323, 324, 328, 352, 353, 340, 218, 341, 368,
         253, 221, 355, 180, 173, 733, 731, 711, 728, 167, 247, 184,
         176, 168, 729, 369, 344, 345, 9632, 160 >> @@
    "cp856" :>
      << 1488, 1489, 1490, 1491, 1492, 1493, 1494, 1495, 1496, 1497, 1498, 1499,
         1500, 1501, 1502, 1503, 1504, 1505, 1506, 1507, 1508, 1509, 1510, 1511,
         1512, 1513, 1514, -1, 163, -1, 215, -1, -1, -1, -1, -1,
         -1, -1, -1, -1, -1, 174, 172, 189, 188, -1, 171, 187,
         9617, 9618, 9619, 9474, 9508, -1, -1, -1, 169, 9571, 9553, 9559,
         9565, 162, 165, 9488, 9492, 9524, 9516, 9500, 9472, 9532, -1, -1,
         9562, 9556, 9577, 9574, 9568, 9552, 9580, 164, -1, -1, -1, -1,
         -1, -1, -1, -1, -1, 9496, 9484, 9608, 9604, 166, -1, 9600,
         -1, -1, -1, -1, -1, -1, 181, -1, -1, -1, -1, -1,
         -1, -1, 175, 180, 173, 177, 8215, 190, 182, 167, 247, 184,
         176, 168, 183, 185, 179, 178, 9632, 160 >> @@
    "cp857" :>
      << 199, 252, 233, 226, 228, 224, 229, 231, 234, 235, 232, 239,
         238, 305, 196, 197, 201, 230, 198, 244, 246, 242, 251, 249,
         304, 214, 220, 248, 163, 216, 350, 351, 225, 237, 243, 250,
         241, 209, 286, 287, 191, 174, 172, 189, 188, 161, 171, 187,
         9617, 9618, 9619, 9474, 9508, 193, 194, 192, 169, 9571, 9553, 9559,
         9565, 162, 165, 9488, 9492, 9524, 9516, 9500, 9472, 9532, 227, 195,
         9562, 9556, 9577, 9574, 9568, 9552, 9580, 164, 186, 170, 202, 203,
         200, -1, 205, 206, 207, 9496, 9484, 9608, 9604, 166, 204, 9600,
         211, 223, 212, 210, 245, 213, 181, -1, 215, 218, 219, 217,
         236, 255, 175, 180, 173, 177, -1, 190, 182, 167, 247, 184,
         176, 168, 183, 185, 179, 178, 9632, 160 >> @@
    "cp858" :>
      << 199, 252, 233, 226, 228, 224, 229, 231, 234, 235, 232, 239,
         238, 236, 196, 197, 201, 230, 198, 244, 246, 242, 251, 249,
         255, 214, 220, 248, 163, 216, 215, 402, 225, 237, 243, 250,
         241, 209, 170, 186, 191, 174, 172, 189, 188, 161, 171, 187,
         9617, 9618, 9619, 9474, 9508, 193, 194, 192, 169, 9571, 9553, 9559,
         9565, 162, 165, 9488, 9492, 9524, 9516, 9500, 9472, 9532, 227, 195,
         9562, 9556, 9577, 9574, 9568, 9552, 9580, 164, 240, 208, 202, 203,
         200, 8364, 205, 206, 207, 9496, 9484, 9608, 9604, 166, 204, 9600,
         211, 223, 212, 210, 245, 213, 181, 254, 222, 218, 219, 217,
         253, 221, 175, 180, 173, 177, 8215, 190, 182, 167, 247, 184,
         176, 168, 183, 185, 179, 178, 9632, 160 >> @@
    "cp860" :>
      << 199, 252, 233, 226, 227, 224, 193, 231, 234, 202, 232, 205,
         212, 236, 195, 194, 201, 192, 200, 244, 245, 242, 218, 249,
         204, 213, 220, 162, 163, 217, 8359, 211, 225, 237, 243, 250,
         241, 209, 170, 186, 191, 210, 172, 189, 188, 161, 171, 187,
         9617, 9618, 9619, 9474, 9508, 9569, 9570, 9558, 9557, 9571, 9553, 9559,
         9565, 9564, 9563, 9488, 9492, 9524, 9516, 9500, 9472, 9532, 9566, 9567,
         9562, 9556, 9577, 9574, 9568, 9552, 9580, 9575, 9576, 9572, 9573, 9561,
         9560, 9554, 9555, 9579, 9578, 9496, 9484, 9608, 9604, 9612, 9616, 9600,
         945, 223, 915, 960, 931, 963, 181, 964, 934, 920, 937, 948,
         8734, 966, 949, 8745, 8801, 177, 8805, 8804, 8992, 8993, 247, 8776,
         176, 8729, 183, 8730, 8319, 178, 9632, 160 >> @@
    "cp861" :>
      << 199, 252, 233, 226, 228, 224, 229, 231, 234, 235, 232, 208,
         240, 222, 196, 197, 201, 230, 198, 244, 246, 254, 251, 221,
         253, 214, 220, 248, 163, 216, 8359, 402, 225, 237, 243, 250,
         193, 205, 211, 218, 191, 8976, 172, 189, 188, 161, 171, 187,
         9617, 9618, 9619, 9474, 9508, 9569, 9570, 9558, 9557, 9571, 9553, 9559,
         9565, 9564, 9563, 9488, 9492, 9524, 9516, 9500, 9472, 9532, 9566, 9567,
         9562, 9556, 9577, 9574, 9568, 9552, 9580, 9575, 9576, 9572, 9573, 9561,
         9560, 9554, 9555, 9579, 9578, 9496, 9484, 9608, 9604, 9612, 9616, 9600,
         945, 223, 915, 960, 931, 963, 181, 964, 934, 920, 937, 948,
         8734, 966, 949, 8745, 8801, 177, 8805, 8804, 8992, 8993, 247, 8776,
         176, 8729, 183, 8730, 8319, 178, 9632, 160 >> @@
    "cp862" :>
      << 1488, 1489, 1490, 1491, 1492, 1493, 1494, 1495, 1496, 1497, 1498, 1499,
         1500, 1501, 1502, 1503, 1504, 1505, 1506, 1507, 1508, 1509, 1510, 1511,
         1512, 1513, 1514, 162, 163, 165, 8359, 402, 225, 237, 243, 250,
         241, 209, 170, 186, 191, 8976, 172, 189, 188, 161, 171, 187,
         9617, 9618, 9619, 9474, 9508, 9569, 9570, 9558, 9557, 9571, 9553, 9559,
         9565, 9564, 9563, 9488, 9492, 9524, 9516, 9500, 9472, 9532, 9566, 9567,
         9562, 9556, 9577, 9574, 9568, 9552, 9580, 9575, 9576, 9572, 9573, 9561,
         9560, 9554, 9555, 9579, 9578, 9496, 9484, 9608, 9604, 9612, 9616, 9600,
         945, 223, 915, 960, 931, 963, 181, 964, 934, 920, 937, 948,
         8734, 966, 949, 8745, 8801, 177, 8805, 8804, 8992, 8993, 247, 8776,
         176, 8729, 183, 8730, 8319, 178, 9632, 160 >> @@
    "cp863" :>
      << 199, 252, 233, 226, 194, 224, 182, 231, 234, 235, 232, 239,
         238, 8215, 192, 167, 201, 200, 202, 244, 203, 207, 251, 249,
         164, 212, 220, 162, 163, 217, 219, 402, 166, 180, 243, 250,
         168, 184, 179, 175, 206, 8976, 172, 189, 188, 190, 171, 187,
         9617, 9618, 9619, 9474, 9508, 9569, 9570, 9558, 9557, 9571, 9553, 9559,
         9565, 9564, 9563, 9488, 9492, 9524, 9516, 9500, 9472, 9532, 9566, 9567,
         9562, 9556, 9577, 9574, 9568, 9552, 9580, 9575, 9576, 9572, 9573, 9561,
         9560, 9554, 9555, 9579, 9578, 9496, 9484, 9608, 9604, 9612, 9616, 9600,
         945, 223, 915, 960, 931, 963, 181, 964, 934, 920, 937, 948,
         8734, 966, 949, 8745, 8801, 177, 8805, 8804, 8992, 8993, 247, 8776,
         176, 8729, 183, 8730, 8319, 178, 9632, 160 >> @@
    "cp864" :>
      << 176, 183, 8729, 8730, 9618, 9472, 9474, 9532, 9508, 9516, 9500, 9524,
         9488, 9484, 9492, 9496, 946, 8734, 966, 177, 189, 188, 8776, 171,
         187, 65271, 65272, -1, -1, 65275, 65276, -1, 160, 173, 65154, 163,
         164, 65156, -1, -1, 65166, 65167, 65173, 65177, 1548, 65181, 65185, 65189,
         1632, 1633, 1634, 1635, 1636, 1637, 1638, 1639, 1640, 1641, 65233, 1563,
         65201, 65205, 65209, 1567, 162, 65152, 65153, 65155, 65157, 65226, 65163, 65165,
         65169, 65171, 65175, 65179, 65183, 65187, 65191, 65193, 65195, 65197, 65199, 65203,
         65207, 65211, 65215, 65217, 65221, 65227, 65231, 166, 172, 247, 215, 65225,
         1600, 65235, 65239, 65243, 65247, 65251, 65255, 65259, 65261, 65263, 65267, 65213,
         65228, 65230, 65229, 65249, 65149, 1617, 65253, 65257, 65260, 65264, 65266, 65232,
         65237, 65269, 65270, 65245, 65241, 65265, 9632, -1 >> @@
    "cp865" :>
      << 199, 252, 233, 226, 228, 224, 229, 231, 234, 235, 232, 239,
         238, 236, 196, 197, 201, 230, 198, 244, 246, 242, 251, 249,
         255, 214, 220, 248, 163, 216, 8359, 402, 225, 237, 243, 250,
         241, 209, 170, 186, 191, 8976, 172, 189, 188, 161, 171, 164,
         9617, 9618, 9619, 9474, 9508, 9569, 9570, 9558, 9557, 9571, 9553, 9559,
         9565, 9564, 9563, 9488, 9492, 9524, 9516, 9500, 9472, 9532, 9566, 9567,
         9562, 9556, 9577, 9574, 9568, 9552, 9580, 9575, 9576, 9572, 9573, 9561,
         9560, 9554, 9555, 9579, 9578, 9496, 9484, 9608, 9604, 9612, 9616, 9600,
         945, 223, 915, 960, 931, 963, 181, 964, 934, 920, 937, 948,
         8734, 966, 949, 8745, 8801, 177, 8805, 8804, 8992, 8993, 247, 8776,
         176, 8729, 183, 8730, 8319, 178, 9632, 160 >> @@
    "cp869" :>
      << -1, -1, -1, -1, -1, -1, 902, -1, 183, 172, 166, 8216,
         8217, 904, 8213, 905, 906, 938, 908, -1, -1, 910, 939, 169,
         911, 178, 179, 940, 163, 941, 942, 943, 970, 912, 972, 973,
         913, 914, 915, 916, 917, 918, 919, 189, 920, 921, 171, 187,
         9617, 9618, 9619, 9474, 9508, 922, 923, 924, 925, 9571, 9553, 9559,
         9565, 926, 927, 9488, 9492, 9524, 9516, 9500, 9472, 9532, 928, 929,
         9562, 9556, 9577, 9574, 9568, 9552, 9580, 931, 932, 933, 934, 935,
         936, 937, 945, 946, 947, 9496, 9484, 9608, 9604, 948, 949, 9600,
         950, 951, 952, 953, 954, 955, 956, 957, 958, 959, 960, 961,
         963, 962, 964, 900, 173, 177, 965, 966, 967, 167, 968, 901,
         176, 168, 969, 971, 944, 974, 9632, 160 >> @@
    "cp875" :>
      << 901, 97, 98, 99, 100, 101, 102, 103, 104, 105, 945, 946,
         947, 948, 949, 950, 176, 106, 107, 108, 109, 110, 111, 112,
         113, 114, 951, 952, 953, 954, 955, 956, 180, 126, 115, 116,
         117, 118, 119, 120, 121, 122, 957, 958, 959, 960, 961, 963,
         163, 940, 941, 942, 970, 943, 972, 973, 971, 974, 962, 964,
         965, 966, 967, 968, 123, 65, 66, 67, 68, 69, 70, 71,
         72, 73, 173, 969, 912, 944, 8216, 8213, 125, 74, 75, 76,
         77, 78, 79, 80, 81, 82, 177, 189, 26, 903, 8217, 166,
         92, 26, 83, 84, 85, 86, 87, 88, 89, 90, 178, 167,
         26, 26, 171, 172, 48, 49, 50, 51, 52, 53, 54, 55,
         56, 57, 179, 169, 26, 26, 187, 159 >> @@
    "hp_roman8" :>
      << 128, 129, 130, 131, 132, 133, 134, 135, 136, 137, 138, 139,
         140, 141, 142, 143, 144, 145, 146, 147, 148, 149, 150, 151,
         152, 153, 154, 155, 156, 157, 158, 159, 160, 192, 194, 200,
         202, 203, 206, 207, 180, 715, 710, 168, 732, 217, 219, 8356,
         175, 221, 253, 176, 199, 231, 209, 241, 161, 191, 164, 163,
         165, 167, 402, 162, 226, 234, 244, 251, 225, 233, 243, 250,
         224, 232, 242, 249, 228, 235, 246, 252, 197, 238, 216, 198,
         229, 237, 248, 230, 196, 236, 214, 220, 201, 239, 223, 212,
         193, 195, 227, 208, 240, 205, 204, 211, 210, 213, 245, 352,
         353, 218, 376, 255, 222, 254, 183, 181, 182, 190, 8212, 188,
         189, 170, 186, 171, 9632, 187, 177, -1 >> @@
    "iso8859_10" :>
      << 128, 129, 130, 131, 132, 133, 134, 135, 136, 137, 138, 139,
         140, 141, 142, 143, 144, 145, 146, 147, 148, 149, 150, 151,
         152, 153, 154, 155, 156, 157, 158, 159, 160, 260, 274, 290,
         298, 296, 310, 167, 315, 272, 352, 358, 381, 173, 362, 330,
         176, 261, 275, 291, 299, 297, 311, 183, 316, 273, 353, 359,
         382, 8213, 363, 331, 256, 193, 194, 195, 196, 197, 198, 302,
         268, 201, 280, 203, 278, 205, 206, 207, 208, 325, 332, 211,
         212, 213, 214, 360, 216, 370, 218, 219, 220, 221, 222, 223,
         257, 225, 226, 227, 228, 229, 230, 303, 269, 233, 281, 235,
         279, 237, 238, 239, 240, 326, 333, 243, 244, 245, 246, 361,
         248, 371, 250, 251, 252, 253, 254, 312 >> @@
    "iso8859_11" :>
      << 128, 129, 130, 131, 132, 133, 134, 135, 136, 137, 138, 139,
         140, 141, 142, 143, 144, 145, 146, 147, 148, 149, 150, 151,
         152, 153, 154, 155, 156, 157, 158, 159, 160, 3585, 3586, 3587,
         3588, 3589, 3590, 3591, 3592, 3593, 3594, 3595, 3596, 3597, 3598, 3599,
         3600, 3601, 3602, 3603, 3604, 3605, 3606, 3607, 3608, 3609, 3610, 3611,
         3612, 3613, 3614, 3615, 3616, 3617, 3618, 3619, 3620, 3621, 3622, 3623,
         3624, 3625, 3626, 3627, 3628, 3629, 3630, 3631, 3632, 3633, 3634, 3635,
         3636, 3637, 3638, 3639, 3640, 3641, 3642, -1, -1, -1, -1, 3647,
         3648, 3649, 3650, 3651, 3652, 3653, 3654, 3655, 3656, 3657, 3658, 3659,
         3660, 3661, 3662, 3663, 3664, 3665, 3666, 3667, 3668, 3669, 3670, 3671,
         3672, 3673, 3674, 3675, -1, -1, -1, -1 >> @@
    "iso8859_13" :>
      << 128, 129, 130, 131, 132, 133, 134, 135, 136, 137, 138, 139,
         140, 141, 142, 143, 144, 145, 146, 147, 148, 149, 150, 151,
         152, 153, 154, 155, 156, 157, 158, 159, 160, 8221, 162, 163,
         164, 8222, 166, 167, 216, 169, 342, 171, 172, 173, 174, 198,
         176, 177, 178, 179, 8220, 181, 182, 183, 248, 185, 343, 187,
         188, 189, 190, 230, 260, 302, 256, 262, 196, 197, 280, 274,
         268, 201, 377, 278, 290, 310, 298, 315, 352, 323, 325, 211,
         332, 213, 214, 215, 370, 321, 346, 362, 220, 379, 381, 223,
         261, 303, 257, 263, 228, 229, 281, 275, 269, 233, 378, 279,
         291, 311, 299, 316, 353, 324, 326, 243, 333, 245, 246, 247,
         371, 322, 347, 363, 252, 380, 382, 8217 >> @@
    "iso8859_14" :>
      << 128, 129, 130, 131, 132, 133, 134, 135, 136, 137, 138, 139,
         140, 141, 142, 143, 144, 145, 146, 147, 148, 149, 150, 151,
         152, 153, 154, 155, 156, 157, 158, 159, 160, 7682, 7683, 163,
         266, 267, 7690, 167, 7808, 169, 7810, 7691, 7922, 173, 174, 376,
         7710, 7711, 288, 289, 7744, 7745, 182, 7766, 7809, 7767, 7811, 7776,
         7923, 7812, 7813, 7777, 192, 193, 194, 195, 196, 197, 198, 199,
         200, 201, 202, 203, 204, 205, 206, 207, 372, 209, 210, 211,
         212, 213, 214, 7786, 216, 217, 218, 219, 220, 221, 374, 223,
         224, 225, 226, 227, 228, 229, 230, 231, 232, 233, 234, 235,
         236, 237, 238, 239, 373, 241, 242, 243, 244, 245, 246, 7787,
         248, 249, 250, 251, 252, 253, 375, 255 >> @@
    "iso8859_16" :>
      << 128, 129, 130, 131, 132, 133, 134, 135, 136, 137, 138, 139,
         140, 141, 142, 143, 144, 145, 146, 147, 148, 149, 150, 151,
         152, 153, 154, 155, 156, 157, 158, 159, 160, 260, 261, 321,
         8364, 8222, 352, 167, 353, 169, 536, 171, 377, 173, 378, 379,
         176, 177, 268, 322, 381, 8221, 182, 183, 382, 269, 537, 187,
         338, 339, 376, 380, 192, 193, 194, 258, 196, 262, 198, 199,
         200, 201, 202, 203, 204, 205, 206, 207, 272, 323, 210, 211,
         212, 336, 214, 346, 368, 217, 218, 219, 220, 280, 538, 223,
         224, 225, 226, 259, 228, 263, 230, 231, 232, 233, 234, 235,
         236, 237, 238, 239, 273, 324, 242, 243, 244, 337, 246, 347,
         369, 249, 250, 251, 252, 281, 539, 255 >> @@
    "iso8859_3" :>
      << 128, 129, 130, 131, 132, 133, 134, 135, 136, 137, 138, 139,
         140, 141, 142, 143, 144, 145, 146, 147, 148, 149, 150, 151,
         152, 153, 154, 155, 156, 157, 158, 159, 160, 294, 728, 163,
         164, -1, 292, 167, 168, 304, 350, 286, 308, 173, -1, 379,
         176, 295, 178, 179, 180, 181, 293, 183, 184, 305, 351, 287,
         309, 189, -1, 380, 192, 193, 194, -1, 196, 266, 264, 199,
         200, 201, 202, 203, 204, 205, 206, 207, -1, 209, 210, 211,
         212, 288, 214, 215, 284, 217, 218, 219, 220, 364, 348, 223,
         224, 225, 226, -1, 228, 267, 265, 231, 232, 233, 234, 235,
         236, 237, 238, 239, -1, 241, 242, 243, 244, 289, 246, 247,
         285, 249, 250, 251, 252, 365, 349, 729 >> @@
    "iso8859_4" :>
      << 128, 129, 130, 131, 132, 133, 134, 135, 136, 137, 138, 139,
         140, 141, 142, 143, 144, 145, 146, 147, 148, 149, 150, 151,
         152, 153, 154, 155, 156, 157, 158, 159, 160, 260, 312, 342,
         164, 296, 315, 167, 168, 352, 274, 290, 358, 173, 381, 175,
         176, 261, 731, 343, 180, 297, 316, 711, 184, 353, 275, 291,
         359, 330, 382, 331, 256, 193, 194, 195, 196, 197, 198, 302,
         268, 201, 280, 203, 278, 205, 206, 298, 272, 325, 332, 310,
         212, 213, 214, 215, 216, 370, 218, 219, 220, 360, 362, 223,
         257, 225, 226, 227, 228, 229, 230, 303, 269, 233, 281, 235,
         279, 237, 238, 299, 273, 326, 333, 311, 244, 245, 246, 247,
         248, 371, 250, 251, 252, 361, 363, 729 >> @@
    "iso8859_6" :>
      << 128, 129, 130, 131, 132, 133, 134, 135, 136, 137, 138, 139,
         140, 141, 142, 143, 144, 145, 146, 147, 148, 149, 150, 151,
         152, 153, 154, 155, 156, 157, 158, 159, 160, -1, -1, -1,
         164, -1, -1, -1, -1, -1, -1, -1, 1548, 173, -1, -1,
         -1, -1, -1, -1, -1, -1, -1, -1, -1, -1, -1, 1563,
         -1, -1, -1, 1567, -1, 1569, 1570, 1571, 1572, 1573, 1574, 1575,
         1576, 1577, 1578, 1579, 1580, 1581, 1582, 1583, 1584, 1585, 1586, 1587,
         1588, 1589, 1590, 1591, 1592, 1593, 1594, -1, -1, -1, -1, -1,
         1600, 1601, 1602, 1603, 1604, 1605, 1606, 1607, 1608, 1609, 1610, 1611,
         1612, 1613, 1614, 1615, 1616, 1617, 1618, -1, -1, -1, -1, -1,
         -1, -1, -1, -1, -1, -1, -1, -1 >> @@
    "koi8_t" :>
      << 1179, 1171, 8218, 1170, 8222, 8230, 8224, 8225, -1, 8240, 1203, 8249,
         1202, 1207, 1206, -1, 1178, 8216, 8217, 8220, 8221, 8226, 8211, 8212,
         -1, 8482, -1, 8250, -1, -1, -1, -1, -1, 1263, 1262, 1105,
         164, 1251, 166, 167, -1, -1, -1, 171, 172, 173, 174, -1,
         176, 177, 178, 1025, -1, 1250, 182, 183, -1, 8470, -1, 187,
         -1, -1, -1, 169, 1102, 1072, 1073, 1094, 1076, 1077, 1092, 1075,
         1093, 1080, 1081, 1082, 1083, 1084, 1085, 1086, 1087, 1103, 1088, 1089,
         1090, 1091, 1078, 1074, 1100, 1099, 1079, 1096, 1101, 1097, 1095, 1098,
         1070, 1040, 1041, 1062, 1044, 1045, 1060, 1043, 1061, 1048, 1049, 1050,
         1051, 1052, 1053, 1054, 1055, 1071, 1056, 1057, 1058, 1059, 1046, 1042,
         1068, 1067, 1047, 1064, 1069, 1065, 1063, 1066 >> @@
    "koi8_u" :>
      << 9472, 9474, 9484, 9488, 9492, 9496, 9500, 9508, 9516, 9524, 9532, 9600,
         9604, 9608, 9612, 9616, 9617, 9618, 9619, 8992, 9632, 8729, 8730, 8776,
         8804, 8805, 160, 8993, 176, 178, 183, 247, 9552, 9553, 9554, 1105,
         1108, 9556, 1110, 1111, 9559, 9560, 9561, 9562, 9563, 1169, 9565, 9566,
         9567, 9568, 9569, 1025, 1028, 9571, 1030, 1031, 9574, 9575, 9576, 9577,
         9578, 1168, 9580, 169, 1102, 1072, 1073, 1094, 1076, 1077, 1092, 1075,
         1093, 1080, 1081, 1082, 1083, 1084, 1085, 1086, 1087, 1103, 1088, 1089,
         1090, 1091, 1078, 1074, 1100, 1099, 1079, 1096, 1101, 1097, 1095, 1098,
         1070, 1040, 1041, 1062, 1044, 1045, 1060, 1043, 1061, 1048, 1049, 1050,
         1051, 1052, 1053, 1054, 1055, 1071, 1056, 1057, 1058, 1059, 1046, 1042,
         1068, 1067, 1047, 1064, 1069, 1065, 1063, 1066 >> @@
    "kz1048" :>
      << 1026, 1027, 8218, 1107, 8222, 8230, 8224, 8225, 8364, 8240, 1033, 8249,
         1034, 1178, 1210, 1039, 1106, 8216, 8217, 8220, 8221, 8226, 8211, 8212,
         -1, 8482, 1113, 8250, 1114, 1179, 1211, 1119, 160, 1200, 1201, 1240,
         164, 1256, 166, 167, 1025, 169, 1170, 171, 172, 173, 174, 1198,
         176, 177, 1030, 1110, 1257, 181, 182, 183, 1105, 8470, 1171, 187,
         1241, 1186, 1187, 1199, 1040, 1041, 1042, 1043, 1044, 1045, 1046, 1047,
         1048, 1049, 1050, 1051, 1052, 1053, 1054, 1055, 1056, 1057, 1058, 1059,
         1060, 1061, 1062, 1063, 1064, 1065, 1066, 1067, 1068, 1069, 1070, 1071,
         1072, 1073, 1074, 1075, 1076, 1077, 1078, 1079, 1080, 1081, 1082, 1083,
         1084, 1085, 1086, 1087, 1088, 1089, 1090, 1091, 1092, 1093, 1094, 1095,
         1096, 1097, 1098, 1099, 1100, 1101, 1102, 1103 >> @@
    "mac_arabic" :>
      << 196, 160, 199, 201, 209, 214, 220, 225, 224, 226, 228, 1722,
         171, 231, 233, 232, 234, 235, 237, 8230, 238, 239, 241, 243,
         187, 244, 246, 247, 250, 249, 251, 252, 32, 33, 34, 35,
         36, 1642, 38, 39, 40, 41, 42, 43, 1548, 45, 46, 47,
         1632, 1633, 1634, 1635, 1636, 1637, 1638, 1639, 1640, 1641, 58, 1563,
         60, 61, 62, 1567, 10058, 1569, 1570, 1571, 1572, 1573, 1574, 1575,
         1576, 1577, 1578, 1579, 1580, 1581, 1582, 1583, 1584, 1585, 1586, 1587,
         1588, 1589, 1590, 1591, 1592, 1593, 1594, 91, 92, 93, 94, 95,
         1600, 1601, 1602, 1603, 1604, 1605, 1606, 1607, 1608, 1609, 1610, 1611,
         1612, 1613, 1614, 1615, 1616, 1617, 1618, 1662, 1657, 1670, 1749, 1700,
         1711, 1672, 1681, 123, 124, 125, 1688, 1746 >> @@
    "mac_croatian" :>
      << 196, 197, 199, 201, 209, 214, 220, 225, 224, 226, 228, 227,
         229, 231, 233, 232, 234, 235, 237, 236, 238, 239, 241, 243,
         242, 244, 246, 245, 250, 249, 251, 252, 8224, 176, 162, 163,
         167, 8226, 182, 223, 174, 352, 8482, 180, 168, 8800, 381, 216,
         8734, 177, 8804, 8805, 8710, 181, 8706, 8721, 8719, 353, 8747, 170,
         186, 937, 382, 248, 191, 161, 172, 8730, 402, 8776, 262, 171,
         268, 8230, 160, 192, 195, 213, 338, 339, 272, 8212, 8220, 8221,
         8216, 8217, 247, 9674, 63743, 169, 8260, 8364, 8249, 8250, 198, 187,
         8211, 183, 8218, 8222, 8240, 194, 263, 193, 269, 200, 205, 206,
         207, 204, 211, 212, 273, 210, 218, 219, 217, 305, 710, 732,
         175, 960, 203, 730, 184, 202, 230, 711 >> @@
    "mac_farsi" :>
      << 196, 160, 199, 201, 209, 214, 220, 225, 224, 226, 228, 1722,
         171, 231, 233, 232, 234, 235, 237, 8230, 238, 239, 241, 243,
         187, 244, 246, 247, 250, 249, 251, 252, 32, 33, 34, 35,
         36, 1642, 38, 39, 40, 41, 42, 43, 1548, 45, 46, 47,
         1776, 1777, 1778, 1779, 1780, 1781, 1782, 1783, 1784, 1785, 58, 1563,
         60, 61, 62, 1567, 10058, 1569, 1570, 1571, 1572, 1573, 1574, 1575,
         1576, 1577, 1578, 1579, 1580, 1581, 1582, 1583, 1584, 1585, 1586, 1587,
         1588, 1589, 1590, 1591, 1592, 1593, 1594, 91, 92, 93, 94, 95,
         1600, 1601, 1602, 1603, 1604, 1605, 1606, 1607, 1608, 1609, 1610, 1611,
         1612, 1613, 1614, 1615, 1616, 1617, 1618, 1662, 1657, 1670, 1749, 1700,
         1711, 1672, 1681, 123, 124, 125, 1688, 1746 >> @@
    "mac_greek" :>
      << 196, 185, 178, 201, 179, 214, 220, 901, 224, 226, 228, 900,
         168, 231, 233, 232, 234, 235, 163, 8482, 238, 239, 8226, 189,
         8240, 244, 246, 166, 8364, 249, 251, 252, 8224, 915, 916, 920,
         923, 926, 928, 223, 174, 169, 931, 938, 167, 8800, 176, 183,
         913, 177, 8804, 8805, 165, 914, 917, 918, 919, 921, 922, 924,
         934, 939, 936, 937, 940, 925, 172, 927, 929, 8776, 932, 171,
         187, 8230, 160, 933, 935, 902, 904, 339, 8211, 8213, 8220, 8221,
         8216, 8217, 247, 905, 906, 908, 910, 941, 942, 943, 972, 911,
         973, 945, 946, 968, 948, 949, 966, 947, 951, 953, 958, 954,
         955, 956, 957, 959, 960, 974, 961, 963, 964, 952, 969, 962,
         967, 965, 950, 970, 971, 912, 944, 173 >> @@
    "mac_iceland" :>
      << 196, 197, 199, 201, 209, 214, 220, 225, 224, 226, 228, 227,
         229, 231, 233, 232, 234, 235, 237, 236, 238, 239, 241, 243,
         242, 244, 246, 245, 250, 249, 251, 252, 221, 176, 162, 163,
         167, 8226, 182, 223, 174, 169, 8482, 180, 168, 8800, 198, 216,
         8734, 177, 8804, 8805, 165, 181, 8706, 8721, 8719, 960, 8747, 170,
         186, 937, 230, 248, 191, 161, 172, 8730, 402, 8776, 8710, 171,
         187, 8230, 160, 192, 195, 213, 338, 339, 8211, 8212, 8220, 8221,
         8216, 8217, 247, 9674, 255, 376, 8260, 8364, 208, 240, 222, 254,
         253, 183, 8218, 8222, 8240, 194, 202, 193, 203, 200, 205, 206,
         207, 204, 211, 212, 63743, 210, 218, 219, 217, 305, 710, 732,
         175, 728, 729, 730, 184, 733, 731, 711 >> @@
    "mac_latin2" :>
      << 196, 256, 257, 201, 260, 214, 220, 225, 261, 268, 228, 269,
         262, 263, 233, 377, 378, 270, 237, 271, 274, 275, 278, 243,
         279, 244, 246, 245, 250, 282, 283, 252, 8224, 176, 280, 163,
         167, 8226, 182, 223, 174, 169, 8482, 281, 168, 8800, 291, 302,
         303, 298, 8804, 8805, 299, 310, 8706, 8721, 322, 315, 316, 317,
         318, 313, 314, 325, 326, 323, 172, 8730, 324, 327, 8710, 171,
         187, 8230, 160, 328, 336, 213, 337, 332, 8211, 8212, 8220, 8221,
         8216, 8217, 247, 9674, 333, 340, 341, 344, 8249, 8250, 345, 342,
         343, 352, 8218, 8222, 353, 346, 347, 193, 356, 357, 205, 381,
         382, 362, 211, 212, 363, 366, 218, 367, 368, 369, 370, 371,
         221, 253, 311, 379, 321, 380, 290, 711 >> @@
    "mac_romanian" :>
      << 196, 197, 199, 201, 209, 214, 220, 225, 224, 226, 228, 227,
         229, 231, 233, 232, 234, 235, 237, 236, 238, 239, 241, 243,
         242, 244, 246, 245, 250, 249, 251, 252, 8224, 176, 162, 163,
         167, 8226, 182, 223, 174, 169, 8482, 180, 168, 8800, 258, 536,
         8734, 177, 8804, 8805, 165, 181, 8706, 8721, 8719, 960, 8747, 170,
         186, 937, 259, 537, 191, 161, 172, 8730, 402, 8776, 8710, 171,
         187, 8230, 160, 192, 195, 213, 338, 339, 8211, 8212, 8220, 8221,
         8216, 8217, 247, 9674, 255, 376, 8260, 8364, 8249, 8250, 538, 539,
         8225, 183, 8218, 8222, 8240, 194, 202, 193, 203, 200, 205, 206,
         207, 204, 211, 212, 63743, 210, 218, 219, 217, 305, 710, 732,
         175, 728, 729, 730, 184, 733, 731, 711 >> @@
    "mac_turkish" :>
      << 196, 197, 199, 201, 209, 214, 220, 225, 224, 226, 228, 227,
         229, 231, 233, 232, 234, 235, 237, 236, 238, 239, 241, 243,
         242, 244, 246, 245, 250, 249, 251, 252, 8224, 176, 162, 163,
         167, 8226, 182, 223, 174, 169, 8482, 180, 168, 8800, 198, 216,
         8734, 177, 8804, 8805, 165, 181, 8706, 8721, 8719, 960, 8747, 170,
         186, 937, 230, 248, 191, 161, 172, 8730, 402, 8776, 8710, 171,
         187, 8230, 160, 192, 195, 213, 338, 339, 8211, 8212, 8220, 8221,
         8216, 8217, 247, 9674, 255, 376, 286, 287, 304, 305, 350, 351,
         8225, 183, 8218, 8222, 8240, 194, 202, 193, 203, 200, 205, 206,
         207, 204, 211, 212, 63743, 210, 218, 219, 217, 63648, 710, 732,
         175, 728, 729, 730, 184, 733, 731, 711 >> @@
    "palmos" :>
      << 8364, 129, 8218, 402, 8222, 8230, 8224, 8225, 710, 8240, 352, 8249,
         338, 9830, 9827, 9829, 9824, 8216, 8217, 8220, 8221, 8226, 8211, 8212,
         732, 8482, 353, 155, 339, 157, 158, 376, 160, 161, 162, 163,
         164, 165, 166, 167, 168, 169, 170, 171, 172, 173, 174, 175,
         176, 177, 178, 179, 180, 181, 182, 183, 184, 185, 186, 187,
         188, 189, 190, 191, 192, 193, 194, 195, 196, 197, 198, 199,
         200, 201, 202, 203, 204, 205, 206, 207, 208, 209, 210, 211,
         212, 213, 214, 215, 216, 217, 218, 219, 220, 221, 222, 223,
         224, 225, 226, 227, 228, 229, 230, 231, 232, 233, 234, 235,
         236, 237, 238, 239, 240, 241, 242, 243, 244, 245, 246, 247,
         248, 249, 250, 251, 252, 253, 254, 255 >> @@
    "ptcp154" :>
      << 1174, 1170, 1262, 1171, 8222, 8230, 1206, 1198, 1202, 1199, 1184, 1250,
         1186, 1178, 1210, 1208, 1175, 8216, 8217, 8220, 8221, 8226, 8211, 8212,
         1203, 1207, 1185, 1251, 1187, 1179, 1211, 1209, 160, 1038, 1118, 1032,
         1256, 1176, 1200, 167, 1025, 169, 1240, 171, 172, 1263, 174, 1180,
         176, 1201, 1030, 1110, 1177, 1257, 182, 183, 1105, 8470, 1241, 187,
         1112, 1194, 1195, 1181, 1040, 1041, 1042, 1043, 1044, 1045, 1046, 1047,
         1048, 1049, 1050, 1051, 1052, 1053, 1054, 1055, 1056, 1057, 1058, 1059,
         1060, 1061, 1062, 1063, 1064, 1065, 1066, 1067, 1068, 1069, 1070, 1071,
         1072, 1073, 1074, 1075, 1076, 1077, 1078, 1079, 1080, 1081, 1082, 1083,
         1084, 1085, 1086, 1087, 1088, 1089, 1090, 1091, 1092, 1093, 1094, 1095,
         1096, 1097, 1098, 1099, 1100, 1101, 1102, 1103 >> @@
    "cp932" :>
      << 128, -1, -1, -1, -1, -1, -1, -1, -1, -1, -1, -1,
         -1, -1, -1, -1, -1, -1, -1, -1, -1, -1, -1, -1,
         -1, -1, -1, -1, -1, -1, -1, -1, 63728, 65377, 65378, 65379,
         65380, 65381, 65382, 65383, 65384, 65385, 65386, 65387, 65388, 65389, 65390, 65391,
         65392, 65393, 65394, 65395, 65396, 65397, 65398, 65399, 65400, 65401, 65402, 65403,
         65404, 65405, 65406, 65407, 65408, 65409, 65410, 65411, 65412, 65413, 65414, 65415,
         65416, 65417, 65418, 65419, 65420, 65421, 65422, 65423, 65424, 65425, 65426, 65427,
         65428, 65429, 65430, 65431, 65432, 65433, 65434, 65435, 65436, 65437, 65438, 65439,
         -1, -1, -1, -1, -1, -1, -1, -1, -1, -1, -1, -1,
         -1, -1, -1, -1, -1, -1, -1, -1, -1, -1, -1, -1,
         -1, -1, -1, -1, -1, 63729, 63730, 63731 >> @@
    "shift_jis" :>
      << -1, -1, -1, -1, -1, -1, -1, -1, -1, -1, -1, -1,
         -1, -1, -1, -1, -1, -1, -1, -1, -1, -1, -1, -1,
         -1, -1, -1, -1, -1, -1, -1, -1, -1, 65377, 65378, 65379,
         65380, 65381, 65382, 65383, 65384, 65385, 65386, 65387, 65388, 65389, 65390, 65391,
         65392, 65393, 65394, 65395, 65396, 65397, 65398, 65399, 65400, 65401, 65402, 65403,
         65404, 65405, 65406, 65407, 65408, 65409, 65410, 65411, 65412, 65413, 65414, 65415,
         65416, 65417, 65418, 65419, 65420, 65421, 65422, 65423, 65424, 65425, 65426, 65427,
         65428, 65429, 65430, 65431, 65432, 65433, 65434, 65435, 65436, 65437, 65438, 65439,
         -1, -1, -1, -1, -1, -1, -1, -1, -1, -1, -1, -1,
         -1, -1, -1, -1, -1, -1, -1, -1, -1, -1, -1, -1,
         -1, -1, -1, -1, -1, -1, -1, -1 >> @@
    "shift_jis_2004" :>
      << -1, -1, -1, -1, -1, -1, -1, -1, -1, -1, -1, -1,
         -1, -1, -1, -1, -1, -1, -1, -1, -1, -1, -1, -1,
         -1, -1, -1, -1, -1, -1, -1, -1, -1, 65377, 65378, 65379,
         65380, 65381, 65382, 65383, 65384, 65385, 65386, 65387, 65388, 65389, 65390, 65391,
         65392, 65393, 65394, 65395, 65396, 65397, 65398, 65399, 65400, 65401, 65402, 65403,
         65404, 65405, 65406, 65407, 65408, 65409, 65410, 65411, 65412, 65413, 65414, 65415,
         65416, 65417, 65418, 65419, 65420, 65421, 65422, 65423, 65424, 65425, 65426, 65427,
         65428, 65429, 65430, 65431, 65432, 65433, 65434, 65435, 65436, 65437, 65438, 65439,
         -1, -1, -1, -1, -1, -1, -1, -1, -1, -1, -1, -1,
         -1, -1, -1, -1, -1, -1, -1, -1, -1, -1, -1, -1,
         -1, -1, -1, -1, -1, -1, -1, -1 >> @@
    "shift_jisx0213" :>
      << -1, -1, -1, -1, -1, -1, -1, -1, -1, -1, -1, -1,
         -1, -1, -1, -1, -1, -1, -1, -1, -1, -1, -1, -1,
         -1, -1, -1, -1, -1, -1, -1, -1, -1, 65377, 65378, 65379,
         65380, 65381, 65382, 65383, 65384, 65385, 65386, 65387, 65388, 65389, 65390, 65391,
         65392, 65393, 65394, 65395, 65396, 65397, 65398, 65399, 65400, 65401, 65402, 65403,
         65404, 65405, 65406, 65407, 65408, 65409, 65410, 65411, 65412, 65413, 65414, 65415,
         65416, 65417, 65418, 65419, 65420, 65421, 65422, 65423, 65424, 65425, 65426, 65427,
         65428, 65429, 65430, 65431, 65432, 65433, 65434, 65435, 65436, 65437, 65438, 65439,
         -1, -1, -1, -1, -1, -1, -1, -1, -1, -1, -1, -1,
         -1, -1, -1, -1, -1, -1, -1, -1, -1, -1, -1, -1,
         -1, -1, -1, -1, -1, -1, -1, -1 >>

\* The lower halves (bytes 00 to 7F) of the code pages that are not ASCII
\* there.
LowByteTables ==
    "cp037" :>
      << 0, 1, 2, 3, 156, 9, 134, 127, 151, 141, 142, 11,
         12, 13, 14, 15, 16, 17, 18, 19, 157, 133, 8, 135,
         24, 25, 146, 143, 28, 29, 30, 31, 128, 129, 130, 131,
         132, 10, 23, 27, 136, 137, 138, 139, 140, 5, 6, 7,
         144, 145, 22, 147, 148, 149, 150, 4, 152, 153, 154, 155,
         20, 21, 158, 26, 32, 160, 226, 228, 224, 225, 227, 229,
         231, 241, 162, 46, 60, 40, 43, 124, 38, 233, 234, 235,
         232, 237, 238, 239, 236, 223, 33, 36, 42, 41, 59, 172,
         45, 47, 194, 196, 192, 193, 195, 197, 199, 209, 166, 44,
         37, 95, 62, 63, 248, 201, 202, 203, 200, 205, 206, 207,
         204, 96, 58, 35, 64, 39, 61, 34 >> @@
    "cp1026" :>
      << 0, 1, 2, 3, 156, 9, 134, 127, 151, 141, 142, 11,
         12, 13, 14, 15, 16, 17, 18, 19, 157, 133, 8, 135,
         24, 25, 146, 143, 28, 29, 30, 31, 128, 129, 130, 131,
         132, 10, 23, 27, 136, 137, 138, 139, 140, 5, 6, 7,
         144, 145, 22, 147, 148, 149, 150, 4, 152, 153, 154, 155,
         20, 21, 158, 26, 32, 160, 226, 228, 224, 225, 227, 229,
         123, 241, 199, 46, 60, 40, 43, 33, 38, 233, 234, 235,
         232, 237, 238, 239, 236, 223, 286, 304, 42, 41, 59, 94,
         45, 47, 194, 196, 192, 193, 195, 197, 91, 209, 351, 44,
         37, 95, 62, 63, 248, 201, 202, 203, 200, 205, 206, 207,
         204, 305, 58, 214, 350, 39, 61, 220 >> @@
    "cp1140" :>
      << 0, 1, 2, 3, 156, 9, 134, 127, 151, 141, 142, 11,
         12, 13, 14, 15, 16, 17, 18, 19, 157, 133, 8, 135,
         24, 25, 146, 143, 28, 29, 30, 31, 128, 129, 130, 131,
         132, 10, 23, 27, 136, 137, 138, 139, 140, 5, 6, 7,
         144, 145, 22, 147, 148, 149, 150, 4, 152, 153, 154, 155,
         20, 21, 158, 26, 32, 160, 226, 228, 224, 225, 227, 229,
         231, 241, 162, 46, 60, 40, 43, 124, 38, 233, 234, 235,
         232, 237, 238, 239, 236, 223, 33, 36, 42, 41, 59, 172,
         45, 47, 194, 196, 192, 193, 195, 197, 199, 209, 166, 44,
         37, 95, 62, 63, 248, 201, 202, 203, 200, 205, 206, 207,
         204, 96, 58, 35, 64, 39, 61, 34 >> @@
    "cp273" :>
      << 0, 1, 2, 3, 156, 9, 134, 127, 151, 141, 142, 11,
         12, 13, 14, 15, 16, 17, 18, 19, 157, 133, 8, 135,
         24, 25, 146, 143, 28, 29, 30, 31, 128, 129, 130, 131,
         132, 10, 23, 27, 136, 137, 138, 139, 140, 5, 6, 7,
         144, 145, 22, 147, 148, 149, 150, 4, 152, 153, 154, 155,
         20, 21, 158, 26, 32, 160, 226, 123, 224, 225, 227, 229,
         231, 241, 196, 46, 60, 40, 43, 33, 38, 233, 234, 235,
         232, 237, 238, 239, 236, 126, 220, 36, 42, 41, 59, 94,
         45, 47, 194, 91, 192, 193, 195, 197, 199, 209, 246, 44,
         37, 95, 62, 63, 248, 201, 202, 203, 200, 205, 206, 207,
         204, 96, 58, 35, 167, 39, 61, 34 >> @@
    "cp424" :>
      << 0, 1, 2, 3, 156, 9, 134, 127, 151, 141, 142, 11,
         12, 13, 14, 15, 16, 17, 18, 19, 157, 133, 8, 135,
         24, 25, 146, 143, 28, 29, 30, 31, 128, 129, 130, 131,
         132, 10, 23, 27, 136, 137, 138, 139, 140, 5, 6, 7,
         144, 145, 22, 147, 148, 149, 150, 4, 152, 153, 154, 155,
         20, 21, 158, 26, 32, 1488, 1489, 1490, 1491, 1492, 1493, 1494,
         1495, 1496, 162, 46, 60, 40, 43, 124, 38, 1497, 1498, 1499,
         1500, 1501, 1502, 1503, 1504, 1505, 33, 36, 42, 41, 59, 172,
         45, 47, 1506, 1507, 1508, 1509, 1510, 1511, 1512, 1513, 166, 44,
         37, 95, 62, 63, -1, 1514, -1, -1, 160, -1, -1, -1,
         8215, 96, 58, 35, 64, 39, 61, 34 >> @@
    "cp500" :>
      << 0, 1, 2, 3, 156, 9, 134, 127, 151, 141, 142, 11,
         12, 13, 14, 15, 16, 17, 18, 19, 157, 133, 8, 135,
         24, 25, 146, 143, 28, 29, 30, 31, 128, 129, 130, 131,
         132, 10, 23, 27, 136, 137, 138, 139, 140, 5, 6, 7,
         144, 145, 22, 147, 148, 149, 150, 4, 152, 153, 154, 155,
         20, 21, 158, 26, 32, 160, 226, 228, 224, 225, 227, 229,
         231, 241, 91, 46, 60, 40, 43, 33, 38, 233, 234, 235,
         232, 237, 238, 239, 236, 223, 93, 36, 42, 41, 59, 94,
         45, 47, 194, 196, 192, 193, 195, 197, 199, 209, 166, 44,
         37, 95, 62, 63, 248, 201, 202, 203, 200, 205, 206, 207,
         204, 96, 58, 35, 64, 39, 61, 34 >> @@
    "cp864" :>
      << 0, 1, 2, 3, 4, 5, 6, 7, 8, 9, 10, 11,
         12, 13, 14, 15, 16, 17, 18, 19, 20, 21, 22, 23,
         24, 25, 26, 27, 28, 29, 30, 31, 32, 33, 34, 35,
         36, 1642, 38, 39, 40, 41, 42, 43, 44, 45, 46, 47,
         48, 49, 50, 51, 52, 53, 54, 55, 56, 57, 58, 59,
         60, 61, 62, 63, 64, 65, 66, 67, 68, 69, 70, 71,
         72, 73, 74, 75, 76, 77, 78, 79, 80, 81, 82, 83,
         84, 85, 86, 87, 88, 89, 90, 91, 92, 93, 94, 95,
         96, 97, 98, 99, 100, 101, 102, 103, 104, 105, 106, 107,
         108, 109, 110, 111, 112, 113, 114, 115, 116, 117, 118, 119,
         120, 121, 122, 123, 124, 125, 126, 127 >> @@
    "cp875" :>
      << 0, 1, 2, 3, 156, 9, 134, 127, 151, 141, 142, 11,
         12, 13, 14, 15, 16, 17, 18, 19, 157, 133, 8, 135,
         24, 25, 146, 143, 28, 29, 30, 31, 128, 129, 130, 131,
         132, 10, 23, 27, 136, 137, 138, 139, 140, 5, 6, 7,
         144, 145, 22, 147, 148, 149, 150, 4, 152, 153, 154, 155,
         20, 21, 158, 26, 32, 913, 914, 915, 916, 917, 918, 919,
         920, 921, 91, 46, 60, 40, 43, 33, 38, 922, 923, 924,
         925, 926, 927, 928, 929, 931, 93, 36, 42, 41, 59, 94,
         45, 47, 932, 933, 934, 935, 936, 937, 938, 939, 124, 44,
         37, 95, 62, 63, 168, 902, 904, 905, 160, 906, 908, 910,
         911, 96, 58, 35, 64, 39, 61, 34 >> @@
    "shift_jis_2004" :>
      << 0, 1, 2, 3, 4, 5, 6, 7, 8, 9, 10, 11,
         12, 13, 14, 15, 16, 17, 18, 19, 20, 21, 22, 23,
         24, 25, 26, 27, 28, 29, 30, 31, 32, 33, 34, 35,
         36, 37, 38, 39, 40, 41, 42, 43, 44, 45, 46, 47,
         48, 49, 50, 51, 52, 53, 54, 55, 56, 57, 58, 59,
         60, 61, 62, 63, 64, 65, 66, 67, 68, 69, 70, 71,
         72, 73, 74, 75, 76, 77, 78, 79, 80, 81, 82, 83,
         84, 85, 86, 87, 88, 89, 90, 91, 165, 93, 94, 95,
         96, 97, 98, 99, 100, 101, 102, 103, 104, 105, 106, 107,
         108, 109, 110, 111, 112, 113, 114, 115, 116, 117, 118, 119,
         120, 121, 122, 123, 124, 125, 8254, 127 >> @@
    "shift_jisx0213" :>
      << 0, 1, 2, 3, 4, 5, 6, 7, 8, 9, 10, 11,
         12, 13, 14, 15, 16, 17, 18, 19, 20, 21, 22, 23,
         24, 25, 26, 27, 28, 29, 30, 31, 32, 33, 34, 35,
         36, 37, 38, 39, 40, 41, 42, 43, 44, 45, 46, 47,
         48, 49, 50, 51, 52, 53, 54, 55, 56, 57, 58, 59,
         60, 61, 62, 63, 64, 65, 66, 67, 68, 69, 70, 71,
         72, 73, 74, 75, 76, 77, 78, 79, 80, 81, 82, 83,
         84, 85, 86, 87, 88, 89, 90, 91, 165, 93, 94, 95,
         96, 97, 98, 99, 100, 101, 102, 103, 104, 105, 106, 107,
         108, 109, 110, 111, 112, 113, 114, 115, 116, 117, 118, 119,
         120, 121, 122, 123, 124, 125, 8254, 127 >>

\* The code tables of the other double-byte codecs, for the two-byte sequences
\* over ByteAlphabet.
DoubleByteTables ==
    "big5" :>
      ((<<189, 65>> :> 29824) @@ (<<189, 189>> :> 34680) @@ (<<189, 196>> :> 34909) @@
       (<<189, 227>> :> 36076) @@ (<<189, 228>> :> 36077) @@ (<<196, 65>> :> 39003) @@
       (<<196, 189>> :> 36485) @@ (<<196, 196>> :> 38369) @@ (<<196, 227>> :> 26005) @@
       (<<196, 228>> :> 26345) @@ (<<227, 65>> :> 31112) @@ (<<227, 189>> :> 34000) @@
       (<<227, 196>> :> 33996) @@ (<<227, 227>> :> 34630) @@ (<<227, 228>> :> 34592) @@
       (<<228, 65>> :> 35052) @@ (<<228, 189>> :> 38655) @@ (<<228, 196>> :> 38786) @@
       (<<228, 227>> :> 40178) @@ (<<228, 228>> :> 40181)) @@
    "big5hkscs" :>
      ((<<189, 65>> :> 29824) @@ (<<189, 189>> :> 34680) @@ (<<189, 196>> :> 34909) @@
       (<<189, 227>> :> 36076) @@ (<<189, 228>> :> 36077) @@ (<<196, 65>> :> 39003) @@
       (<<196, 189>> :> 36485) @@ (<<196, 196>> :> 38369) @@ (<<196, 227>> :> 26005) @@
       (<<196, 228>> :> 26345) @@ (<<227, 65>> :> 31112) @@ (<<227, 189>> :> 34000) @@
       (<<227, 196>> :> 33996) @@ (<<227, 227>> :> 34630) @@ (<<227, 228>> :> 34592) @@
       (<<228, 65>> :> 35052) @@ (<<228, 189>> :> 38655) @@ (<<228, 196>> :> 38786) @@
       (<<228, 227>> :> 40178) @@ (<<228, 228>> :> 40181)) @@
    "cp932" :>
      ((<<227, 65>> :> 32028) @@ (<<227, 128>> :> 32306) @@ (<<227, 189>> :> 32694) @@
       (<<227, 196>> :> 32724) @@ (<<227, 227>> :> 32893) @@ (<<227, 228>> :> 32895) @@
       (<<228, 65>> :> 33094) @@ (<<228, 128>> :> 33378) @@ (<<228, 189>> :> 33780) @@
       (<<228, 196>> :> 33803) @@ (<<228, 227>> :> 33977) @@ (<<228, 228>> :> 33983)) @@
    "cp949" :>
      ((<<189, 65>> :> 54231) @@ (<<189, 189>> :> 49836) @@ (<<189, 196>> :> 49885) @@
       (<<189, 227>> :> 50028) @@ (<<189, 228>> :> 50032) @@ (<<196, 65>> :> 54955) @@
       (<<196, 189>> :> 52909) @@ (<<196, 196>> :> 52980) @@ (<<196, 227>> :> 53105) @@
       (<<196, 228>> :> 53108) @@ (<<227, 189>> :> 24337) @@ (<<227, 196>> :> 29468) @@
       (<<227, 227>> :> 23072) @@ (<<227, 228>> :> 23480) @@ (<<228, 189>> :> 40285) @@
       (<<228, 196>> :> 25569) @@ (<<228, 227>> :> 25276) @@ (<<228, 228>> :> 29390)) @@
    "cp950" :>
      ((<<189, 65>> :> 29824) @@ (<<189, 189>> :> 34680) @@ (<<189, 196>> :> 34909) @@
       (<<189, 227>> :> 36076) @@ (<<189, 228>> :> 36077) @@ (<<196, 65>> :> 39003) @@
       (<<196, 189>> :> 36485) @@ (<<196, 196>> :> 38369) @@ (<<196, 227>> :> 26005) @@
       (<<196, 228>> :> 26345) @@ (<<227, 65>> :> 31112) @@ (<<227, 189>> :> 34000) @@
       (<<227, 196>> :> 33996) @@ (<<227, 227>> :> 34630) @@ (<<227, 228>> :> 34592) @@
       (<<228, 65>> :> 35052) @@ (<<228, 189>> :> 38655) @@ (<<228, 196>> :> 38786) @@
       (<<228, 227>> :> 40178) @@ (<<228, 228>> :> 40181)) @@
    "euc_jis_2004" :>
      ((<<189, 189>> :> 21313) @@ (<<189, 196>> :> 32294) @@ (<<189, 227>> :> 32020) @@
       (<<189, 228>> :> 24033) @@ (<<196, 189>> :> 25431) @@ (<<196, 196>> :> 38515) @@
       (<<196, 227>> :> 20302) @@ (<<196, 228>> :> 20572) @@ (<<227, 189>> :> 31177) @@
       (<<227, 196>> :> 31245) @@ (<<227, 227>> :> 31423) @@ (<<227, 228>> :> 36995) @@
       (<<228, 189>> :> 31695) @@ (<<228, 196>> :> 31718) @@ (<<228, 227>> :> 31875) @@
       (<<228, 228>> :> 31888)) @@
    "euc_jisx0213" :>
      ((<<189, 189>> :> 21313) @@ (<<189, 196>> :> 32294) @@ (<<189, 227>> :> 32020) @@
       (<<189, 228>> :> 24033) @@ (<<196, 189>> :> 25431) @@ (<<196, 196>> :> 38515) @@
       (<<196, 227>> :> 20302) @@ (<<196, 228>> :> 20572) @@ (<<227, 189>> :> 31177) @@
       (<<227, 196>> :> 31245) @@ (<<227, 227>> :> 31423) @@ (<<227, 228>> :> 36995) @@
       (<<228, 189>> :> 31695) @@ (<<228, 196>> :> 31718) @@ (<<228, 227>> :> 31875) @@
       (<<228, 228>> :> 31888)) @@
    "euc_jp" :>
      ((<<189, 189>> :> 21313) @@ (<<189, 196>> :> 32294) @@ (<<189, 227>> :> 32020) @@
       (<<189, 228>> :> 24033) @@ (<<196, 189>> :> 25431) @@ (<<196, 196>> :> 38515) @@
       (<<196, 227>> :> 20302) @@ (<<196, 228>> :> 20572) @@ (<<227, 189>> :> 31177) @@
       (<<227, 196>> :> 31245) @@ (<<227, 227>> :> 31423) @@ (<<227, 228>> :> 36995) @@
       (<<228, 189>> :> 31695) @@ (<<228, 196>> :> 31718) @@ (<<228, 227>> :> 31875) @@
       (<<228, 228>> :> 31888)) @@
    "euc_kr" :>
      ((<<189, 189>> :> 49836) @@ (<<189, 196>> :> 49885) @@ (<<189, 227>> :> 50028) @@
       (<<189, 228>> :> 50032) @@ (<<196, 189>> :> 52909) @@ (<<196, 196>> :> 52980) @@
       (<<196, 227>> :> 53105) @@ (<<196, 228>> :> 53108) @@ (<<227, 189>> :> 24337) @@
       (<<227, 196>> :> 29468) @@ (<<227, 227>> :> 23072) @@ (<<227, 228>> :> 23480) @@
       (<<228, 189>> :> 40285) @@ (<<228, 196>> :> 25569) @@ (<<228, 227>> :> 25276) @@
       (<<228, 228>> :> 29390)) @@
    "johab" :>
      ((<<189, 65>> :> 51816) @@ (<<189, 189>> :> 51927) @@ (<<189, 196>> :> 51931) @@
       (<<189, 227>> :> 51958) @@ (<<189, 228>> :> 51959) @@ (<<196, 65>> :> 12619) @@
       (<<196, 189>> :> 52935) @@ (<<196, 196>> :> 52939) @@ (<<196, 227>> :> 52966) @@
       (<<196, 228>> :> 52967) @@ (<<227, 65>> :> 38312) @@ (<<227, 189>> :> 32774) @@
       (<<227, 196>> :> 37665) @@ (<<227, 227>> :> 63765) @@ (<<227, 228>> :> 63766) @@
       (<<228, 65>> :> 32784) @@ (<<228, 189>> :> 25812) @@ (<<228, 196>> :> 32835) @@
       (<<228, 227>> :> 25140) @@ (<<228, 228>> :> 25825)) @@
    "shift_jis" :>
      ((<<227, 65>> :> 32028) @@ (<<227, 128>> :> 32306) @@ (<<227, 189>> :> 32694) @@
       (<<227, 196>> :> 32724) @@ (<<227, 227>> :> 32893) @@ (<<227, 228>> :> 32895) @@
       (<<228, 65>> :> 33094) @@ (<<228, 128>> :> 33378) @@ (<<228, 189>> :> 33780) @@
       (<<228, 196>> :> 33803) @@ (<<228, 227>> :> 33977) @@ (<<228, 228>> :> 33983)) @@
    "shift_jis_2004" :>
      ((<<227, 65>> :> 32028) @@ (<<227, 128>> :> 32306) @@ (<<227, 189>> :> 32694) @@
       (<<227, 196>> :> 32724) @@ (<<227, 227>> :> 32893) @@ (<<227, 228>> :> 32895) @@
       (<<228, 65>> :> 33094) @@ (<<228, 128>> :> 33378) @@ (<<228, 189>> :> 33780) @@
       (<<228, 196>> :> 33803) @@ (<<228, 227>> :> 33977) @@ (<<228, 228>> :> 33983)) @@
    "shift_jisx0213" :>
      ((<<227, 65>> :> 32028) @@ (<<227, 128>> :> 32306) @@ (<<227, 189>> :> 32694) @@
       (<<227, 196>> :> 32724) @@ (<<227, 227>> :> 32893) @@ (<<227, 228>> :> 32895) @@
       (<<228, 65>> :> 33094) @@ (<<228, 128>> :> 33378) @@ (<<228, 189>> :> 33780) @@
       (<<228, 196>> :> 33803) @@ (<<228, 227>> :> 33977) @@ (<<228, 228>> :> 33983))

\* A double-byte codec with single bytes above 7F: the pair looked up in the
\* table, else the single byte, else an error of one byte.
MbcsStep(codec, b, i) ==
    IF i + 1 <= Len(b) /\ <<b[i], b[i + 1]>> \in DOMAIN DoubleByteTables[codec]
    THEN [n |-> 2, cp |-> DoubleByteTables[codec][<<b[i], b[i + 1]>>]]
    ELSE IF b[i] < 128
    THEN [n |-> 1, cp |-> IF codec \in DOMAIN LowByteTables
                          THEN LowByteTables[codec][b[i] + 1] ELSE b[i]]
    ELSE [n |-> 1, cp |-> IF codec \in DOMAIN SingleByteTables
                          THEN SingleByteTables[codec][b[i] - 127] ELSE -1]

\* UTF-16: the code unit at i in the byte order, and one character.  A lone
\* low surrogate, and a high surrogate with no low one after it, are errors
\* of two bytes; a high surrogate the input ends after is an error up to the
\* end; a last odd byte is an error of one byte.
Utf16Unit(b, i, big) == IF big THEN b[i] * 256 + b[i + 1] ELSE b[i + 1] * 256 + b[i]

Utf16Pair(b, i, big, u, v) ==
    IF v >= 56320 /\ v <= 57343
    THEN [n |-> 4, cp |-> 65536 + (u - 55296) * 1024 + (v - 56320)]
    ELSE [n |-> 2, cp |-> -1]

Utf16Step(b, i, big) ==
    IF i + 1 > Len(b) THEN [n |-> 1, cp |-> -1]
    ELSE IF Utf16Unit(b, i, big) < 55296 \/ Utf16Unit(b, i, big) > 57343
    THEN [n |-> 2, cp |-> Utf16Unit(b, i, big)]
    ELSE IF Utf16Unit(b, i, big) >= 56320 THEN [n |-> 2, cp |-> -1]
    ELSE IF i + 3 > Len(b) THEN [n |-> Len(b) - i + 1, cp |-> -1]
    ELSE Utf16Pair(b, i, big, Utf16Unit(b, i, big), Utf16Unit(b, i + 2, big))

\* UTF-32: four bytes a character; fewer at the end are an error up to the
\* end, a surrogate or a number past 10FFFF an error of four bytes.
Utf32Low(b, i, big) ==
    IF big THEN b[i + 1] * 65536 + b[i + 2] * 256 + b[i + 3]
    ELSE b[i + 2] * 65536 + b[i + 1] * 256 + b[i]

Utf32Step(b, i, big) ==
    IF i + 3 > Len(b) THEN [n |-> Len(b) - i + 1, cp |-> -1]
    ELSE IF (IF big THEN b[i] ELSE b[i + 3]) /= 0 THEN [n |-> 4, cp |-> -1]
    ELSE IF Utf32Low(b, i, big) > 1114111
            \/ (Utf32Low(b, i, big) >= 55296 /\ Utf32Low(b, i, big) <= 57343)
    THEN [n |-> 4, cp |-> -1]
    ELSE [n |-> 4, cp |-> Utf32Low(b, i, big)]

\* The codecs that decode a byte as the ASCII codec does (over ByteAlphabet)
\* and as Latin-1 does.
AsciiCodecs == {"ascii", "utf_7", "hz", "iso2022_jp", "iso2022_jp_1", "iso2022_jp_2",
               "iso2022_jp_2004", "iso2022_jp_3", "iso2022_jp_ext", "iso2022_kr"}
Latin1Codecs == {"latin_1", "iso8859_1", "charmap", "unicode_escape", "raw_unicode_escape"}

\* The codecs in which a byte below 80 does not always stand for the ASCII
\* character of that number.
NotAsciiCodecs ==
    DOMAIN LowByteTables \cup {"utf_16_le", "utf_16_be", "utf_32_le", "utf_32_be"}

DecodeStep(codec, b, i) ==
    CASE codec \in AsciiCodecs  -> [n |-> 1, cp |-> IF b[i] < 128 THEN b[i] ELSE -1]
      [] codec \in Latin1Codecs -> [n |-> 1, cp |-> b[i]]
      [] codec = "utf_8"   -> Utf8Step(b, i)
      [] codec = "gbk"     -> DbcsStep(GbkTable, b, i)
      [] codec = "gb2312"  -> DbcsStep(Gb2312Table, b, i)
      [] codec = "gb18030" -> DbcsStep(GbkTable, b, i)
      [] codec = "utf_16_le" -> Utf16Step(b, i, FALSE)
      [] codec = "utf_16_be" -> Utf16Step(b, i, TRUE)
      [] codec = "utf_32_le" -> Utf32Step(b, i, FALSE)
      [] codec = "utf_32_be" -> Utf32Step(b, i, TRUE)
      [] codec \in DOMAIN DoubleByteTables -> MbcsStep(codec, b, i)
      [] OTHER -> [n |-> 1, cp |-> IF b[i] < 128
                                   THEN IF codec \in DOMAIN LowByteTables
                                        THEN LowByteTables[codec][b[i] + 1] ELSE b[i]
                                   ELSE SingleByteTables[codec][b[i] - 127]]

\* What one step s adds in front of the decoded rest; <<-1>> marks a strict
\* failure.
Emit(s, rest, errors) ==
    IF rest = <<-1>> THEN rest
    ELSE IF s.cp >= 0 THEN <<s.cp>> \o rest
    ELSE IF errors = "strict" THEN <<-1>>
    ELSE IF errors = "replace" THEN <<ReplacementChar>> \o rest
    ELSE rest

\* The position after the bytes below 128 that start at i.
AsciiRunEnd(b, i) ==
    IF \A j \in i..Len(b) : b[j] < 128 THEN Len(b) + 1
    ELSE CHOOSE j \in i..Len(b) : b[j] >= 128 /\ \A m \in i..(j - 1) : b[m] < 128

\* The ASCII characters run in front of the decoded rest.
EmitRun(run, rest) == IF rest = <<-1>> THEN rest ELSE run \o rest

RECURSIVE DecodeFrom(_, _, _, _), DecodeAfter(_, _, _, _, _)
\* The characters of b from position i on.  But for NotAsciiCodecs a byte
\* below 128 that starts a character is the ASCII character of that number,
\* so a run of them is taken at once.
DecodeFrom(codec, b, i, errors) ==
    IF i > Len(b) THEN <<>>
    ELSE IF b[i] < 128 /\ codec \notin NotAsciiCodecs
    THEN EmitRun(SubSeq(b, i, AsciiRunEnd(b, i) - 1),
                 DecodeFrom(codec, b, AsciiRunEnd(b, i), errors))
    ELSE DecodeAfter(codec, b, i, errors, DecodeStep(codec, b, i))

DecodeAfter(codec, b, i, errors, s) ==
    Emit(s, DecodeFrom(codec, b, i + s.n, errors), errors)

DecodeResult(t) ==
    IF t = <<-1>> THEN [exc |-> "UnicodeDecodeError", text |-> <<>>]
    ELSE [exc |-> "none", text |-> t]

(***************************************************************************)
(* Strings.  A str of Python is the sequence of its code points; the       *)
(* literals of the program are written with Text.  `sub in s` of Python is *)
(* Contains(s, sub).                                                       *)
(***************************************************************************)
\* The printable ASCII characters a literal is written with, U+0020 to
\* U+007E in order; no literal of the program holds U+0060, which stands here
\* by its name.
PrintableAscii ==
    << " ", "!", "\"", "#", "$", "%", "&", "'", "(", ")", "*", "+",
       ",", "-", ".", "/", "0", "1", "2", "3", "4", "5", "6", "7",
       "8", "9", ":", ";", "<", "=", ">", "?", "@", "A", "B", "C",
       "D", "E", "F", "G", "H", "I", "J", "K", "L", "M", "N", "O",
       "P", "Q", "R", "S", "T", "U", "V", "W", "X", "Y", "Z", "[",
       "\\", "]", "^", "_", "U+0060", "a", "b", "c", "d", "e", "f", "g",
       "h", "i", "j", "k", "l", "m", "n", "o", "p", "q", "r", "s",
       "t", "u", "v", "w", "x", "y", "z", "{", "|", "}", "~" >>

\* ord(c) of such a character.
Ord(c) == 31 + CHOOSE k \in 1..95 : PrintableAscii[k] = c

\* The str written as its characters.
Text(chars) == [i \in 1..Len(chars) |-> Ord(chars[i])]

Contains(s, sub) ==
    \E i \in 0..(Len(s) - Len(sub)) : SubSeq(s, i + 1, i + Len(sub)) = sub

\* The lower-case mappings of str.lower beyond ASCII, but for U+0130 and
\* U+03A3: <<first, last, step, delta>> stands for the characters first,
\* first + step, ... up to last, each mapped to itself plus delta.
LowerRanges ==
    << <<192, 214, 1, 32>>, <<216, 222, 1, 32>>, <<256, 302, 2, 1>>, <<306, 310, 2, 1>>,
       <<313, 327, 2, 1>>, <<330, 374, 2, 1>>, <<376, 376, 1, -121>>, <<377, 381, 2, 1>>,
       <<385, 385, 1, 210>>, <<386, 388, 2, 1>>, <<390, 390, 1, 206>>, <<391, 391, 1, 1>>,
       <<393, 394, 1, 205>>, <<395, 395, 1, 1>>, <<398, 398, 1, 79>>, <<399, 399, 1, 202>>,
       <<400, 400, 1, 203>>, <<401, 401, 1, 1>>, <<403, 403, 1, 205>>, <<404, 404, 1, 207>>,
       <<406, 406, 1, 211>>, <<407, 407, 1, 209>>, <<408, 408, 1, 1>>, <<412, 412, 1, 211>>,
       <<413, 413, 1, 213>>, <<415, 415, 1, 214>>, <<416, 420, 2, 1>>, <<422, 422, 1, 218>>,
       <<423, 423, 1, 1>>, <<425, 425, 1, 218>>, <<428, 428, 1, 1>>, <<430, 430, 1, 218>>,
       <<431, 431, 1, 1>>, <<433, 434, 1, 217>>, <<435, 437, 2, 1>>, <<439, 439, 1, 219>>,
       <<440, 440, 1, 1>>, <<444, 444, 1, 1>>, <<452, 452, 1, 2>>, <<453, 453, 1, 1>>,
       <<455, 455, 1, 2>>, <<456, 456, 1, 1>>, <<458, 458, 1, 2>>, <<459, 475, 2, 1>>,
       <<478, 494, 2, 1>>, <<497, 497, 1, 2>>, <<498, 500, 2, 1>>, <<502, 502, 1, -97>>,
       <<503, 503, 1, -56>>, <<504, 542, 2, 1>>, <<544, 544, 1, -130>>, <<546, 562, 2, 1>>,
       <<570, 570, 1, 10795>>, <<571, 571, 1, 1>>, <<573, 573, 1, -163>>, <<574, 574, 1, 10792>>,
       <<577, 577, 1, 1>>, <<579, 579, 1, -195>>, <<580, 580, 1, 69>>, <<581, 581, 1, 71>>,
       <<582, 590, 2, 1>>, <<880, 882, 2, 1>>, <<886, 886, 1, 1>>, <<895, 895, 1, 116>>,
       <<902, 902, 1, 38>>, <<904, 906, 1, 37>>, <<908, 908, 1, 64>>, <<910, 911, 1, 63>>,
       <<913, 929, 1, 32>>, <<932, 939, 1, 32>>, <<975, 975, 1, 8>>, <<984, 1006, 2, 1>>,
       <<1012, 1012, 1, -60>>, <<1015, 1015, 1, 1>>, <<1017, 1017, 1, -7>>, <<1018, 1018, 1, 1>>,
       <<1021, 1023, 1, -130>>, <<1024, 1039, 1, 80>>, <<1040, 1071, 1, 32>>, <<1120, 1152, 2, 1>>,
       <<1162, 1214, 2, 1>>, <<1216, 1216, 1, 15>>, <<1217, 1229, 2, 1>>, <<1232, 1326, 2, 1>>,
       <<1329, 1366, 1, 48>>, <<4256, 4293, 1, 7264>>, <<4295, 4295, 1, 7264>>, <<4301, 4301, 1, 7264>>,
       <<5024, 5103, 1, 38864>>, <<5104, 5109, 1, 8>>, <<7312, 7354, 1, -3008>>, <<7357, 7359, 1, -3008>>,
       <<7680, 7828, 2, 1>>, <<7838, 7838, 1, -7615>>, <<7840, 7934, 2, 1>>, <<7944, 7951, 1, -8>>,
       <<7960, 7965, 1, -8>>, <<7976, 7983, 1, -8>>, <<7992, 7999, 1, -8>>, <<8008, 8013, 1, -8>>,
       <<8025, 8031, 2, -8>>, <<8040, 8047, 1, -8>>, <<8072, 8079, 1, -8>>, <<8088, 8095, 1, -8>>,
       <<8104, 8111, 1, -8>>, <<8120, 8121, 1, -8>>, <<8122, 8123, 1, -74>>, <<8124, 8124, 1, -9>>,
       <<8136, 8139, 1, -86>>, <<8140, 8140, 1, -9>>, <<8152, 8153, 1, -8>>, <<8154, 8155, 1, -100>>,
       <<8168, 8169, 1, -8>>, <<8170, 8171, 1, -112>>, <<8172, 8172, 1, -7>>, <<8184, 8185, 1, -128>>,
       <<8186, 8187, 1, -126>>, <<8188, 8188, 1, -9>>, <<8486, 8486, 1, -7517>>, <<8490, 8490, 1, -8383>>,
       <<8491, 8491, 1, -8262>>, <<8498, 8498, 1, 28>>, <<8544, 8559, 1, 16>>, <<8579, 8579, 1, 1>>,
       <<9398, 9423, 1, 26>>, <<11264, 11311, 1, 48>>, <<11360, 11360, 1, 1>>, <<11362, 11362, 1, -10743>>,
       <<11363, 11363, 1, -3814>>, <<11364, 11364, 1, -10727>>, <<11367, 11371, 2, 1>>, <<11373, 11373, 1, -10780>>,
       <<11374, 11374, 1, -10749>>, <<11375, 11375, 1, -10783>>, <<11376, 11376, 1, -10782>>, <<11378, 11378, 1, 1>>,
       <<11381, 11381, 1, 1>>, <<11390, 11391, 1, -10815>>, <<11392, 11490, 2, 1>>, <<11499, 11501, 2, 1>>,
       <<11506, 11506, 1, 1>>, <<42560, 42604, 2, 1>>, <<42624, 42650, 2, 1>>, <<42786, 42798, 2, 1>>,
       <<42802, 42862, 2, 1>>, <<42873, 42875, 2, 1>>, <<42877, 42877, 1, -35332>>, <<42878, 42886, 2, 1>>,
       <<42891, 42891, 1, 1>>, <<42893, 42893, 1, -42280>>, <<42896, 42898, 2, 1>>, <<42902, 42920, 2, 1>>,
       <<42922, 42922, 1, -42308>>, <<42923, 42923, 1, -42319>>, <<42924, 42924, 1, -42315>>, <<42925, 42925, 1, -42305>>,
       <<42926, 42926, 1, -42308>>, <<42928, 42928, 1, -42258>>, <<42929, 42929, 1, -42282>>, <<42930, 42930, 1, -42261>>,
       <<42931, 42931, 1, 928>>, <<42932, 42946, 2, 1>>, <<42948, 42948, 1, -48>>, <<42949, 42949, 1, -42307>>,
       <<42950, 42950, 1, -35384>>, <<42951, 42953, 2, 1>>, <<42960, 42960, 1, 1>>, <<42966, 42968, 2, 1>>,
       <<42997, 42997, 1, 1>>, <<65313, 65338, 1, 32>>, <<66560, 66599, 1, 40>>, <<66736, 66771, 1, 40>>,
       <<66928, 66938, 1, 39>>, <<66940, 66954, 1, 39>>, <<66956, 66962, 1, 39>>, <<66964, 66965, 1, 39>>,
       <<68736, 68786, 1, 64>>, <<71840, 71871, 1, 32>>, <<93760, 93791, 1, 32>>, <<125184, 125217, 1, 34>> >>

\* The case-ignorable characters, as ranges <<first, last>>.
CaseIgnorable ==
    << <<39, 39>>, <<46, 46>>, <<58, 58>>, <<94, 94>>, <<96, 96>>, <<168, 168>>,
       <<173, 173>>, <<175, 175>>, <<180, 180>>, <<183, 184>>, <<688, 879>>, <<884, 885>>,
       <<890, 890>>, <<900, 901>>, <<903, 903>>, <<1155, 1161>>, <<1369, 1369>>, <<1375, 1375>>,
       <<1425, 1469>>, <<1471, 1471>>, <<1473, 1474>>, <<1476, 1477>>, <<1479, 1479>>, <<1524, 1524>>,
       <<1536, 1541>>, <<1552, 1562>>, <<1564, 1564>>, <<1600, 1600>>, <<1611, 1631>>, <<1648, 1648>>,
       <<1750, 1757>>, <<1759, 1768>>, <<1770, 1773>>, <<1807, 1807>>, <<1809, 1809>>, <<1840, 1866>>,
       <<1958, 1968>>, <<2027, 2037>>, <<2042, 2042>>, <<2045, 2045>>, <<2070, 2093>>, <<2137, 2139>>,
       <<2184, 2184>>, <<2192, 2193>>, <<2200, 2207>>, <<2249, 2306>>, <<2362, 2362>>, <<2364, 2364>>,
       <<2369, 2376>>, <<2381, 2381>>, <<2385, 2391>>, <<2402, 2403>>, <<2417, 2417>>, <<2433, 2433>>,
       <<2492, 2492>>, <<2497, 2500>>, <<2509, 2509>>, <<2530, 2531>>, <<2558, 2558>>, <<2561, 2562>>,
       <<2620, 2620>>, <<2625, 2626>>, <<2631, 2632>>, <<2635, 2637>>, <<2641, 2641>>, <<2672, 2673>>,
       <<2677, 2677>>, <<2689, 2690>>, <<2748, 2748>>, <<2753, 2757>>, <<2759, 2760>>, <<2765, 2765>>,
       <<2786, 2787>>, <<2810, 2815>>, <<2817, 2817>>, <<2876, 2876>>, <<2879, 2879>>, <<2881, 2884>>,
       <<2893, 2893>>, <<2901, 2902>>, <<2914, 2915>>, <<2946, 2946>>, <<3008, 3008>>, <<3021, 3021>>,
       <<3072, 3072>>, <<3076, 3076>>, <<3132, 3132>>, <<3134, 3136>>, <<3142, 3144>>, <<3146, 3149>>,
       <<3157, 3158>>, <<3170, 3171>>, <<3201, 3201>>, <<3260, 3260>>, <<3263, 3263>>, <<3270, 3270>>,
       <<3276, 3277>>, <<3298, 3299>>, <<3328, 3329>>, <<3387, 3388>>, <<3393, 3396>>, <<3405, 3405>>,
       <<3426, 3427>>, <<3457, 3457>>, <<3530, 3530>>, <<3538, 3540>>, <<3542, 3542>>, <<3633, 3633>>,
       <<3636, 3642>>, <<3654, 3662>>, <<3761, 3761>>, <<3764, 3772>>, <<3782, 3782>>, <<3784, 3789>>,
       <<3864, 3865>>, <<3893, 3893>>, <<3895, 3895>>, <<3897, 3897>>, <<3953, 3966>>, <<3968, 3972>>,
       <<3974, 3975>>, <<3981, 3991>>, <<3993, 4028>>, <<4038, 4038>>, <<4141, 4144>>, <<4146, 4151>>,
       <<4153, 4154>>, <<4157, 4158>>, <<4184, 4185>>, <<4190, 4192>>, <<4209, 4212>>, <<4226, 4226>>,
       <<4229, 4230>>, <<4237, 4237>>, <<4253, 4253>>, <<4348, 4348>>, <<4957, 4959>>, <<5906, 5908>>,
       <<5938, 5939>>, <<5970, 5971>>, <<6002, 6003>>, <<6068, 6069>>, <<6071, 6077>>, <<6086, 6086>>,
       <<6089, 6099>>, <<6103, 6103>>, <<6109, 6109>>, <<6155, 6159>>, <<6211, 6211>>, <<6277, 6278>>,
       <<6313, 6313>>, <<6432, 6434>>, <<6439, 6440>>, <<6450, 6450>>, <<6457, 6459>>, <<6679, 6680>>,
       <<6683, 6683>>, <<6742, 6742>>, <<6744, 6750>>, <<6752, 6752>>, <<6754, 6754>>, <<6757, 6764>>,
       <<6771, 6780>>, <<6783, 6783>>, <<6823, 6823>>, <<6832, 6862>>, <<6912, 6915>>, <<6964, 6964>>,
       <<6966, 6970>>, <<6972, 6972>>, <<6978, 6978>>, <<7019, 7027>>, <<7040, 7041>>, <<7074, 7077>>,
       <<7080, 7081>>, <<7083, 7085>>, <<7142, 7142>>, <<7144, 7145>>, <<7149, 7149>>, <<7151, 7153>>,
       <<7212, 7219>>, <<7222, 7223>>, <<7288, 7293>>, <<7376, 7378>>, <<7380, 7392>>, <<7394, 7400>>,
       <<7405, 7405>>, <<7412, 7412>>, <<7416, 7417>>, <<7468, 7530>>, <<7544, 7544>>, <<7579, 7679>>,
       <<8125, 8125>>, <<8127, 8129>>, <<8141, 8143>>, <<8157, 8159>>, <<8173, 8175>>, <<8189, 8190>>,
       <<8203, 8207>>, <<8216, 8217>>, <<8228, 8228>>, <<8231, 8231>>, <<8234, 8238>>, <<8288, 8292>>,
       <<8294, 8303>>, <<8305, 8305>>, <<8319, 8319>>, <<8336, 8348>>, <<8400, 8432>>, <<11388, 11389>>,
       <<11503, 11505>>, <<11631, 11631>>, <<11647, 11647>>, <<11744, 11775>>, <<11823, 11823>>, <<12293, 12293>>,
       <<12330, 12333>>, <<12337, 12341>>, <<12347, 12347>>, <<12441, 12446>>, <<12540, 12542>>, <<40981, 40981>>,
       <<42232, 42237>>, <<42508, 42508>>, <<42607, 42610>>, <<42612, 42621>>, <<42623, 42623>>, <<42652, 42655>>,
       <<42736, 42737>>, <<42752, 42785>>, <<42864, 42864>>, <<42888, 42890>>, <<42994, 42996>>, <<43000, 43001>>,
       <<43010, 43010>>, <<43014, 43014>>, <<43019, 43019>>, <<43045, 43046>>, <<43052, 43052>>, <<43204, 43205>>,
       <<43232, 43249>>, <<43263, 43263>>, <<43302, 43309>>, <<43335, 43345>>, <<43392, 43394>>, <<43443, 43443>>,
       <<43446, 43449>>, <<43452, 43453>>, <<43471, 43471>>, <<43493, 43494>>, <<43561, 43566>>, <<43569, 43570>>,
       <<43573, 43574>>, <<43587, 43587>>, <<43596, 43596>>, <<43632, 43632>>, <<43644, 43644>>, <<43696, 43696>>,
       <<43698, 43700>>, <<43703, 43704>>, <<43710, 43711>>, <<43713, 43713>>, <<43741, 43741>>, <<43756, 43757>>,
       <<43763, 43764>>, <<43766, 43766>>, <<43867, 43871>>, <<43881, 43883>>, <<44005, 44005>>, <<44008, 44008>>,
       <<44013, 44013>>, <<64286, 64286>>, <<64434, 64450>>, <<65024, 65039>>, <<65043, 65043>>, <<65056, 65071>>,
       <<65106, 65106>>, <<65109, 65109>>, <<65279, 65279>>, <<65287, 65287>>, <<65294, 65294>>, <<65306, 65306>>,
       <<65342, 65342>>, <<65344, 65344>>, <<65392, 65392>>, <<65438, 65439>>, <<65507, 65507>>, <<65529, 65531>>,
       <<66045, 66045>>, <<66272, 66272>>, <<66422, 66426>>, <<67456, 67461>>, <<67463, 67504>>, <<67506, 67514>>,
       <<68097, 68099>>, <<68101, 68102>>, <<68108, 68111>>, <<68152, 68154>>, <<68159, 68159>>, <<68325, 68326>>,
       <<68900, 68903>>, <<69291, 69292>>, <<69446, 69456>>, <<69506, 69509>>, <<69633, 69633>>, <<69688, 69702>>,
       <<69744, 69744>>, <<69747, 69748>>, <<69759, 69761>>, <<69811, 69814>>, <<69817, 69818>>, <<69821, 69821>>,
       <<69826, 69826>>, <<69837, 69837>>, <<69888, 69890>>, <<69927, 69931>>, <<69933, 69940>>, <<70003, 70003>>,
       <<70016, 70017>>, <<70070, 70078>>, <<70089, 70092>>, <<70095, 70095>>, <<70191, 70193>>, <<70196, 70196>>,
       <<70198, 70199>>, <<70206, 70206>>, <<70367, 70367>>, <<70371, 70378>>, <<70400, 70401>>, <<70459, 70460>>,
       <<70464, 70464>>, <<70502, 70508>>, <<70512, 70516>>, <<70712, 70719>>, <<70722, 70724>>, <<70726, 70726>>,
       <<70750, 70750>>, <<70835, 70840>>, <<70842, 70842>>, <<70847, 70848>>, <<70850, 70851>>, <<71090, 71093>>,
       <<71100, 71101>>, <<71103, 71104>>, <<71132, 71133>>, <<71219, 71226>>, <<71229, 71229>>, <<71231, 71232>>,
       <<71339, 71339>>, <<71341, 71341>>, <<71344, 71349>>, <<71351, 71351>>, <<71453, 71455>>, <<71458, 71461>>,
       <<71463, 71467>>, <<71727, 71735>>, <<71737, 71738>>, <<71995, 71996>>, <<71998, 71998>>, <<72003, 72003>>,
       <<72148, 72151>>, <<72154, 72155>>, <<72160, 72160>>, <<72193, 72202>>, <<72243, 72248>>, <<72251, 72254>>,
       <<72263, 72263>>, <<72273, 72278>>, <<72281, 72283>>, <<72330, 72342>>, <<72344, 72345>>, <<72752, 72758>>,
       <<72760, 72765>>, <<72767, 72767>>, <<72850, 72871>>, <<72874, 72880>>, <<72882, 72883>>, <<72885, 72886>>,
       <<73009, 73014>>, <<73018, 73018>>, <<73020, 73021>>, <<73023, 73029>>, <<73031, 73031>>, <<73104, 73105>>,
       <<73109, 73109>>, <<73111, 73111>>, <<73459, 73460>>, <<78896, 78904>>, <<92912, 92916>>, <<92976, 92982>>,
       <<92992, 92995>>, <<94031, 94031>>, <<94095, 94111>>, <<94176, 94177>>, <<94179, 94180>>, <<110576, 110579>>,
       <<110581, 110587>>, <<110589, 110590>>, <<113821, 113822>>, <<113824, 113827>>, <<118528, 118573>>, <<118576, 118598>>,
       <<119143, 119145>>, <<119155, 119170>>, <<119173, 119179>>, <<119210, 119213>>, <<119362, 119364>>, <<121344, 121398>>,
       <<121403, 121452>>, <<121461, 121461>>, <<121476, 121476>>, <<121499, 121503>>, <<121505, 121519>>, <<122880, 122886>>,
       <<122888, 122904>>, <<122907, 122913>>, <<122915, 122916>>, <<122918, 122922>>, <<123184, 123197>>, <<123566, 123566>>,
       <<123628, 123631>>, <<125136, 125142>>, <<125252, 125259>>, <<127995, 127999>>, <<917505, 917505>>, <<917536, 917631>>,
       <<917760, 917999>> >>

\* The cased characters that are not case-ignorable, as ranges <<first, last>>.
Cased ==
    << <<65, 90>>, <<97, 122>>, <<170, 170>>, <<181, 181>>, <<186, 186>>, <<192, 214>>,
       <<216, 246>>, <<248, 442>>, <<444, 447>>, <<452, 659>>, <<661, 687>>, <<880, 883>>,
       <<886, 887>>, <<891, 893>>, <<895, 895>>, <<902, 902>>, <<904, 906>>, <<908, 908>>,
       <<910, 929>>, <<931, 1013>>, <<1015, 1153>>, <<1162, 1327>>, <<1329, 1366>>, <<1376, 1416>>,
       <<4256, 4293>>, <<4295, 4295>>, <<4301, 4301>>, <<4304, 4346>>, <<4349, 4351>>, <<5024, 5109>>,
       <<5112, 5117>>, <<7296, 7304>>, <<7312, 7354>>, <<7357, 7359>>, <<7424, 7467>>, <<7531, 7543>>,
       <<7545, 7578>>, <<7680, 7957>>, <<7960, 7965>>, <<7968, 8005>>, <<8008, 8013>>, <<8016, 8023>>,
       <<8025, 8025>>, <<8027, 8027>>, <<8029, 8029>>, <<8031, 8061>>, <<8064, 8116>>, <<8118, 8124>>,
       <<8126, 8126>>, <<8130, 8132>>, <<8134, 8140>>, <<8144, 8147>>, <<8150, 8155>>, <<8160, 8172>>,
       <<8178, 8180>>, <<8182, 8188>>, <<8450, 8450>>, <<8455, 8455>>, <<8458, 8467>>, <<8469, 8469>>,
       <<8473, 8477>>, <<8484, 8484>>, <<8486, 8486>>, <<8488, 8488>>, <<8490, 8493>>, <<8495, 8500>>,
       <<8505, 8505>>, <<8508, 8511>>, <<8517, 8521>>, <<8526, 8526>>, <<8544, 8575>>, <<8579, 8580>>,
       <<9398, 9449>>, <<11264, 11387>>, <<11390, 11492>>, <<11499, 11502>>, <<11506, 11507>>, <<11520, 11557>>,
       <<11559, 11559>>, <<11565, 11565>>, <<42560, 42605>>, <<42624, 42651>>, <<42786, 42863>>, <<42865, 42887>>,
       <<42891, 42894>>, <<42896, 42954>>, <<42960, 42961>>, <<42963, 42963>>, <<42965, 42969>>, <<42997, 42998>>,
       <<43002, 43002>>, <<43824, 43866>>, <<43872, 43880>>, <<43888, 43967>>, <<64256, 64262>>, <<64275, 64279>>,
       <<65313, 65338>>, <<65345, 65370>>, <<66560, 66639>>, <<66736, 66771>>, <<66776, 66811>>, <<66928, 66938>>,
       <<66940, 66954>>, <<66956, 66962>>, <<66964, 66965>>, <<66967, 66977>>, <<66979, 66993>>, <<66995, 67001>>,
       <<67003, 67004>>, <<68736, 68786>>, <<68800, 68850>>, <<71840, 71903>>, <<93760, 93823>>, <<119808, 119892>>,
       <<119894, 119964>>, <<119966, 119967>>, <<119970, 119970>>, <<119973, 119974>>, <<119977, 119980>>, <<119982, 119993>>,
       <<119995, 119995>>, <<119997, 120003>>, <<120005, 120069>>, <<120071, 120074>>, <<120077, 120084>>, <<120086, 120092>>,
       <<120094, 120121>>, <<120123, 120126>>, <<120128, 120132>>, <<120134, 120134>>, <<120138, 120144>>, <<120146, 120485>>,
       <<120488, 120512>>, <<120514, 120538>>, <<120540, 120570>>, <<120572, 120596>>, <<120598, 120628>>, <<120630, 120654>>,
       <<120656, 120686>>, <<120688, 120712>>, <<120714, 120744>>, <<120746, 120770>>, <<120772, 120779>>, <<122624, 122633>>,
       <<122635, 122654>>, <<125184, 125251>>, <<127280, 127305>>, <<127312, 127337>>, <<127344, 127369>> >>

InRanges(ranges, c) == \E k \in 1..Len(ranges) : c >= ranges[k][1] /\ c <= ranges[k][2]

\* A-Z to a-z and nothing else: the lower-casing of the C library, which
\* codecs.lookup uses.
AsciiLower(s) ==
    [i \in 1..Len(s) |-> IF s[i] >= 65 /\ s[i] <= 90 THEN s[i] + 32 ELSE s[i]]

\* The lower case of one character that maps to one character.
ToLowerAt(ranges, c, hits) ==
    IF hits = {} THEN c ELSE c + ranges[CHOOSE k \in hits : TRUE][4]

ToLowerIn(ranges, c) ==
    ToLowerAt(ranges, c, {k \in 1..Len(ranges) :
                             /\ c >= ranges[k][1] /\ c <= ranges[k][2]
                             /\ (c - ranges[k][1]) % ranges[k][3] = 0})

\* Whether the capital sigma at i ends a word: the nearest character before
\* it that is not case-ignorable is cased, and the nearest one after it, if
\* any, is not.
FinalSigmaBetween(cased, s, before, after) ==
    /\ before /= {}
    /\ InRanges(cased, s[CHOOSE j \in before : \A k \in before : k <= j])
    /\ after = {} \/ ~InRanges(cased, s[CHOOSE j \in after : \A k \in after : j <= k])

FinalSigma(s, i) ==
    FinalSigmaBetween(Cased, s,
                      {j \in 1..(i - 1) : ~InRanges(CaseIgnorable, s[j])},
                      {j \in (i + 1)..Len(s) : ~InRanges(CaseIgnorable, s[j])})

\* What the character at i becomes: U+03A3 a final or a medial small sigma.
LowerAt(s, i) ==
    IF s[i] = 931 THEN (IF FinalSigma(s, i) THEN 962 ELSE 963)
    ELSE IF s[i] < 128 THEN (IF s[i] >= 65 /\ s[i] <= 90 THEN s[i] + 32 ELSE s[i])
    ELSE ToLowerIn(LowerRanges, s[i])

\* The lower case of s where the characters at the positions of dotted are
\* U+0130, which becomes i and U+0307, so that the character at i moves right
\* by the number of such characters before it.
LowerSpread(s, dotted, at) ==
    [k \in 1..(Len(s) + Cardinality(dotted)) |->
        IF \E i \in dotted : at[i] + 1 = k THEN 775
        ELSE IF \E i \in dotted : at[i] = k THEN 105
        ELSE LowerAt(s, CHOOSE i \in 1..Len(s) : at[i] = k)]

LowerDotted(s, dotted) ==
    LowerSpread(s, dotted, [i \in 1..Len(s) |-> i + Cardinality({j \in dotted : j < i})])

\* str.lower().
Lower(s) ==
    IF \A i \in 1..Len(s) : s[i] < 128 THEN AsciiLower(s)
    ELSE LowerDotted(s, {i \in 1..Len(s) : s[i] = 304})

\* The ASCII letters and digits, and the dot.
Dot == Ord(".")
Digits == {Ord("0") + k : k \in 0..9}
Letters == {Ord("A") + k : k \in 0..25} \cup {Ord("a") + k : k \in 0..25}

\* The characters the parsers look for.
Slash == Ord("/")
Colon == Ord(":")
Semicolon == Ord(";")
Question == Ord("?")
Hash == Ord("#")
OpenBracket == Ord("[")
CloseBracket == Ord("]")
Percent == Ord("%")
Lt == Ord("<")
Gt == Ord(">")
Amp == Ord("&")
Equals == Ord("=")
Quote == Ord("\"")
Apostrophe == Ord("'")
Bang == Ord("!")
Minus == Ord("-")
HexDigits == Digits \cup {Ord("a") + k : k \in 0..5} \cup {Ord("A") + k : k \in 0..5}

\* encodings.aliases.aliases: the module each alias stands for.  A name is
\* given by its code points.
CodecAliases ==
    <<
       [name |-> <<54, 52, 54>>, codec |-> "ascii"],  \* 646
       [name |-> <<97, 110, 115, 105, 95, 120, 51, 46, 52, 95, 49, 57, 54, 56>>, codec |-> "ascii"],  \* ansi_x3.4_1968
       [name |-> <<97, 110, 115, 105, 95, 120, 51, 46, 52, 95, 49, 57, 56, 54>>, codec |-> "ascii"],  \* ansi_x3.4_1986
       [name |-> <<97, 110, 115, 105, 95, 120, 51, 95, 52, 95, 49, 57, 54, 56>>, codec |-> "ascii"],  \* ansi_x3_4_1968
       [name |-> <<99, 112, 51, 54, 55>>, codec |-> "ascii"],  \* cp367
       [name |-> <<99, 115, 97, 115, 99, 105, 105>>, codec |-> "ascii"],  \* csascii
       [name |-> <<105, 98, 109, 51, 54, 55>>, codec |-> "ascii"],  \* ibm367
       [name |-> <<105, 115, 111, 54, 52, 54, 95, 117, 115>>, codec |-> "ascii"],  \* iso646_us
       [name |-> <<105, 115, 111, 95, 54, 52, 54, 46, 105, 114, 118, 95, 49, 57, 57, 49>>, codec |-> "ascii"],  \* iso_646.irv_1991
       [name |-> <<105, 115, 111, 95, 105, 114, 95, 54>>, codec |-> "ascii"],  \* iso_ir_6
       [name |-> <<117, 115>>, codec |-> "ascii"],  \* us
       [name |-> <<117, 115, 95, 97, 115, 99, 105, 105>>, codec |-> "ascii"],  \* us_ascii
       [name |-> <<98, 97, 115, 101, 54, 52>>, codec |-> "base64_codec"],  \* base64
       [name |-> <<98, 97, 115, 101, 95, 54, 52>>, codec |-> "base64_codec"],  \* base_64
       [name |-> <<98, 105, 103, 53, 95, 116, 119>>, codec |-> "big5"],  \* big5_tw
       [name |-> <<99, 115, 98, 105, 103, 53>>, codec |-> "big5"],  \* csbig5
       [name |-> <<120, 95, 109, 97, 99, 95, 116, 114, 97, 100, 95, 99, 104, 105, 110, 101, 115, 101>>, codec |-> "big5"],  \* x_mac_trad_chinese
       [name |-> <<98, 105, 103, 53, 95, 104, 107, 115, 99, 115>>, codec |-> "big5hkscs"],  \* big5_hkscs
       [name |-> <<104, 107, 115, 99, 115>>, codec |-> "big5hkscs"],  \* hkscs
       [name |-> <<98, 122, 50>>, codec |-> "bz2_codec"],  \* bz2
       [name |-> <<48, 51, 55>>, codec |-> "cp037"],  \* 037
       [name |-> <<99, 115, 105, 98, 109, 48, 51, 55>>, codec |-> "cp037"],  \* csibm037
       [name |-> <<101, 98, 99, 100, 105, 99, 95, 99, 112, 95, 99, 97>>, codec |-> "cp037"],  \* ebcdic_cp_ca
       [name |-> <<101, 98, 99, 100, 105, 99, 95, 99, 112, 95, 110, 108>>, codec |-> "cp037"],  \* ebcdic_cp_nl
       [name |-> <<101, 98, 99, 100, 105, 99, 95, 99, 112, 95, 117, 115>>, codec |-> "cp037"],  \* ebcdic_cp_us
       [name |-> <<101, 98, 99, 100, 105, 99, 95, 99, 112, 95, 119, 116>>, codec |-> "cp037"],  \* ebcdic_cp_wt
       [name |-> <<105, 98, 109, 48, 51, 55>>, codec |-> "cp037"],  \* ibm037
       [name |-> <<105, 98, 109, 48, 51, 57>>, codec |-> "cp037"],  \* ibm039
       [name |-> <<49, 48, 50, 54>>, codec |-> "cp1026"],  \* 1026
       [name |-> <<99, 115, 105, 98, 109, 49, 48, 50, 54>>, codec |-> "cp1026"],  \* csibm1026
       [name |-> <<105, 98, 109, 49, 48, 50, 54>>, codec |-> "cp1026"],  \* ibm1026
       [name |-> <<49, 49, 50, 53>>, codec |-> "cp1125"],  \* 1125
       [name |-> <<99, 112, 56, 54, 54, 117>>, codec |-> "cp1125"],  \* cp866u
       [name |-> <<105, 98, 109, 49, 49, 50, 53>>, codec |-> "cp1125"],  \* ibm1125
       [name |-> <<114, 117, 115, 99, 105, 105>>, codec |-> "cp1125"],  \* ruscii
       [name |-> <<49, 49, 52, 48>>, codec |-> "cp1140"],  \* 1140
       [name |-> <<105, 98, 109, 49, 49, 52, 48>>, codec |-> "cp1140"],  \* ibm1140
       [name |-> <<49, 50, 53, 48>>, codec |-> "cp1250"],  \* 1250
       [name |-> <<119, 105, 110, 100, 111, 119, 115, 95, 49, 50, 53, 48>>, codec |-> "cp1250"],  \* windows_1250
       [name |-> <<49, 50, 53, 49>>, codec |-> "cp1251"],  \* 1251
       [name |-> <<119, 105, 110, 100, 111, 119, 115, 95, 49, 50, 53, 49>>, codec |-> "cp1251"],  \* windows_1251
       [name |-> <<49, 50, 53, 50>>, codec |-> "cp1252"],  \* 1252
       [name |-> <<119, 105, 110, 100, 111, 119, 115, 95, 49, 50, 53, 50>>, codec |-> "cp1252"],  \* windows_1252
       [name |-> <<49, 50, 53, 51>>, codec |-> "cp1253"],  \* 1253
       [name |-> <<119, 105, 110, 100, 111, 119, 115, 95, 49, 50, 53, 51>>, codec |-> "cp1253"],  \* windows_1253
       [name |-> <<49, 50, 53, 52>>, codec |-> "cp1254"],  \* 1254
       [name |-> <<119, 105, 110, 100, 111, 119, 115, 95, 49, 50, 53, 52>>, codec |-> "cp1254"],  \* windows_1254
       [name |-> <<49, 50, 53, 53>>, codec |-> "cp1255"],  \* 1255
       [name |-> <<119, 105, 110, 100, 111, 119, 115, 95, 49, 50, 53, 53>>, codec |-> "cp1255"],  \* windows_1255
       [name |-> <<49, 50, 53, 54>>, codec |-> "cp1256"],  \* 1256
       [name |-> <<119, 105, 110, 100, 111, 119, 115, 95, 49, 50, 53, 54>>, codec |-> "cp1256"],  \* windows_1256
       [name |-> <<49, 50, 53, 55>>, codec |-> "cp1257"],  \* 1257
       [name |-> <<119, 105, 110, 100, 111, 119, 115, 95, 49, 50, 53, 55>>, codec |-> "cp1257"],  \* windows_1257
       [name |-> <<49, 50, 53, 56>>, codec |-> "cp1258"],  \* 1258
       [name |-> <<119, 105, 110, 100, 111, 119, 115, 95, 49, 50, 53, 56>>, codec |-> "cp1258"],  \* windows_1258
       [name |-> <<50, 55, 51>>, codec |-> "cp273"],  \* 273
       [name |-> <<99, 115, 105, 98, 109, 50, 55, 51>>, codec |-> "cp273"],  \* csibm273
       [name |-> <<105, 98, 109, 50, 55, 51>>, codec |-> "cp273"],  \* ibm273
       [name |-> <<52, 50, 52>>, codec |-> "cp424"],  \* 424
       [name |-> <<99, 115, 105, 98, 109, 52, 50, 52>>, codec |-> "cp424"],  \* csibm424
       [name |-> <<101, 98, 99, 100, 105, 99, 95, 99, 112, 95, 104, 101>>, codec |-> "cp424"],  \* ebcdic_cp_he
       [name |-> <<105, 98, 109, 52, 50, 52>>, codec |-> "cp424"],  \* ibm424
       [name |-> <<52, 51, 55>>, codec |-> "cp437"],  \* 437
       [name |-> <<99, 115, 112, 99, 56, 99, 111, 100, 101, 112, 97, 103, 101, 52, 51, 55>>, codec |-> "cp437"],  \* cspc8codepage437
       [name |-> <<105, 98, 109, 52, 51, 55>>, codec |-> "cp437"],  \* ibm437
       [name |-> <<53, 48, 48>>, codec |-> "cp500"],  \* 500
       [name |-> <<99, 115, 105, 98, 109, 53, 48, 48>>, codec |-> "cp500"],  \* csibm500
       [name |-> <<101, 98, 99, 100, 105, 99, 95, 99, 112, 95, 98, 101>>, codec |-> "cp500"],  \* ebcdic_cp_be
       [name |-> <<101, 98, 99, 100, 105, 99, 95, 99, 112, 95, 99, 104>>, codec |-> "cp500"],  \* ebcdic_cp_ch
       [name |-> <<105, 98, 109, 53, 48, 48>>, codec |-> "cp500"],  \* ibm500
       [name |-> <<55, 55, 53>>, codec |-> "cp775"],  \* 775
       [name |-> <<99, 115, 112, 99, 55, 55, 53, 98, 97, 108, 116, 105, 99>>, codec |-> "cp775"],  \* cspc775baltic
       [name |-> <<105, 98, 109, 55, 55, 53>>, codec |-> "cp775"],  \* ibm775
       [name |-> <<56, 53, 48>>, codec |-> "cp850"],  \* 850
       [name |-> <<99, 115, 112, 99, 56, 53, 48, 109, 117, 108, 116, 105, 108, 105, 110, 103, 117, 97, 108>>, codec |-> "cp850"],  \* cspc850multilingual
       [name |-> <<105, 98, 109, 56, 53, 48>>, codec |-> "cp850"],  \* ibm850
       [name |-> <<56, 53, 50>>, codec |-> "cp852"],  \* 852
       [name |-> <<99, 115, 112, 99, 112, 56, 53, 50>>, codec |-> "cp852"],  \* cspcp852
       [name |-> <<105, 98, 109, 56, 53, 50>>, codec |-> "cp852"],  \* ibm852
       [name |-> <<56, 53, 53>>, codec |-> "cp855"],  \* 855
       [name |-> <<99, 115, 105, 98, 109, 56, 53, 53>>, codec |-> "cp855"],  \* csibm855
       [name |-> <<105, 98, 109, 56, 53, 53>>, codec |-> "cp855"],  \* ibm855
       [name |-> <<56, 53, 55>>, codec |-> "cp857"],  \* 857
       [name |-> <<99, 115, 105, 98, 109, 56, 53, 55>>, codec |-> "cp857"],  \* csibm857
       [name |-> <<105, 98, 109, 56, 53, 55>>, codec |-> "cp857"],  \* ibm857
       [name |-> <<56, 53, 56>>, codec |-> "cp858"],  \* 858
       [name |-> <<99, 115, 105, 98, 109, 56, 53, 56>>, codec |-> "cp858"],  \* csibm858
       [name |-> <<105, 98, 109, 56, 53, 56>>, codec |-> "cp858"],  \* ibm858
       [name |-> <<56, 54, 48>>, codec |-> "cp860"],  \* 860
       [name |-> <<99, 115, 105, 98, 109, 56, 54, 48>>, codec |-> "cp860"],  \* csibm860
       [name |-> <<105, 98, 109, 56, 54, 48>>, codec |-> "cp860"],  \* ibm860
       [name |-> <<56, 54, 49>>, codec |-> "cp861"],  \* 861
       [name |-> <<99, 112, 95, 105, 115>>, codec |-> "cp861"],  \* cp_is
       [name |-> <<99, 115, 105, 98, 109, 56, 54, 49>>, codec |-> "cp861"],  \* csibm861
       [name |-> <<105, 98, 109, 56, 54, 49>>, codec |-> "cp861"],  \* ibm861
       [name |-> <<56, 54, 50>>, codec |-> "cp862"],  \* 862
       [name |-> <<99, 115, 112, 99, 56, 54, 50, 108, 97, 116, 105, 110, 104, 101, 98, 114, 101, 119>>, codec |-> "cp862"],  \* cspc862latinhebrew
       [name |-> <<105, 98, 109, 56, 54, 50>>, codec |-> "cp862"],  \* ibm862
       [name |-> <<56, 54, 51>>, codec |-> "cp863"],  \* 863
       [name |-> <<99, 115, 105, 98, 109, 56, 54, 51>>, codec |-> "cp863"],  \* csibm863
       [name |-> <<105, 98, 109, 56, 54, 51>>, codec |-> "cp863"],  \* ibm863
       [name |-> <<56, 54, 52>>, codec |-> "cp864"],  \* 864
       [name |-> <<99, 115, 105, 98, 109, 56, 54, 52>>, codec |-> "cp864"],  \* csibm864
       [name |-> <<105, 98, 109, 56, 54, 52>>, codec |-> "cp864"],  \* ibm864
       [name |-> <<56, 54, 53>>, codec |-> "cp865"],  \* 865
       [name |-> <<99, 115, 105, 98, 109, 56, 54, 53>>, codec |-> "cp865"],  \* csibm865
       [name |-> <<105, 98, 109, 56, 54, 53>>, codec |-> "cp865"],  \* ibm865
       [name |-> <<56, 54, 54>>, codec |-> "cp866"],  \* 866
       [name |-> <<99, 115, 105, 98, 109, 56, 54, 54>>, codec |-> "cp866"],  \* csibm866
       [name |-> <<105, 98, 109, 56, 54, 54>>, codec |-> "cp866"],  \* ibm866
       [name |-> <<56, 54, 57>>, codec |-> "cp869"],  \* 869
       [name |-> <<99, 112, 95, 103, 114>>, codec |-> "cp869"],  \* cp_gr
       [name |-> <<99, 115, 105, 98, 109, 56, 54, 57>>, codec |-> "cp869"],  \* csibm869
       [name |-> <<105, 98, 109, 56, 54, 57>>, codec |-> "cp869"],  \* ibm869
       [name |-> <<57, 51, 50>>, codec |-> "cp932"],  \* 932
       [name |-> <<109, 115, 57, 51, 50>>, codec |-> "cp932"],  \* ms932
       [name |-> <<109, 115, 95, 107, 97, 110, 106, 105>>, codec |-> "cp932"],  \* ms_kanji
       [name |-> <<109, 115, 107, 97, 110, 106, 105>>, codec |-> "cp932"],  \* mskanji
       [name |-> <<57, 52, 57>>, codec |-> "cp949"],  \* 949
       [name |-> <<109, 115, 57, 52, 57>>, codec |-> "cp949"],  \* ms949
       [name |-> <<117, 104, 99>>, codec |-> "cp949"],  \* uhc
       [name |-> <<57, 53, 48>>, codec |-> "cp950"],  \* 950
       [name |-> <<109, 115, 57, 53, 48>>, codec |-> "cp950"],  \* ms950
       [name |-> <<101, 117, 99, 95, 106, 105, 115, 50, 48, 48, 52>>, codec |-> "euc_jis_2004"],  \* euc_jis2004
       [name |-> <<101, 117, 99, 106, 105, 115, 50, 48, 48, 52>>, codec |-> "euc_jis_2004"],  \* eucjis2004
       [name |-> <<106, 105, 115, 120, 48, 50, 49, 51>>, codec |-> "euc_jis_2004"],  \* jisx0213
       [name |-> <<101, 117, 99, 106, 105, 115, 120, 48, 50, 49, 51>>, codec |-> "euc_jisx0213"],  \* eucjisx0213
       [name |-> <<101, 117, 99, 106, 112>>, codec |-> "euc_jp"],  \* eucjp
       [name |-> <<117, 95, 106, 105, 115>>, codec |-> "euc_jp"],  \* u_jis
       [name |-> <<117, 106, 105, 115>>, codec |-> "euc_jp"],  \* ujis
       [name |-> <<101, 117, 99, 107, 114>>, codec |-> "euc_kr"],  \* euckr
       [name |-> <<107, 111, 114, 101, 97, 110>>, codec |-> "euc_kr"],  \* korean
       [name |-> <<107, 115, 95, 99, 95, 53, 54, 48, 49>>, codec |-> "euc_kr"],  \* ks_c_5601
       [name |-> <<107, 115, 95, 99, 95, 53, 54, 48, 49, 95, 49, 57, 56, 55>>, codec |-> "euc_kr"],  \* ks_c_5601_1987
       [name |-> <<107, 115, 95, 120, 95, 49, 48, 48, 49>>, codec |-> "euc_kr"],  \* ks_x_1001
       [name |-> <<107, 115, 99, 53, 54, 48, 49>>, codec |-> "euc_kr"],  \* ksc5601
       [name |-> <<107, 115, 120, 49, 48, 48, 49>>, codec |-> "euc_kr"],  \* ksx1001
       [name |-> <<120, 95, 109, 97, 99, 95, 107, 111, 114, 101, 97, 110>>, codec |-> "euc_kr"],  \* x_mac_korean
       [name |-> <<103, 98, 49, 56, 48, 51, 48, 95, 50, 48, 48, 48>>, codec |-> "gb18030"],  \* gb18030_2000
       [name |-> <<99, 104, 105, 110, 101, 115, 101>>, codec |-> "gb2312"],  \* chinese
       [name |-> <<99, 115, 105, 115, 111, 53, 56, 103, 98, 50, 51, 49, 50, 56, 48>>, codec |-> "gb2312"],  \* csiso58gb231280
       [name |-> <<101, 117, 99, 95, 99, 110>>, codec |-> "gb2312"],  \* euc_cn
       [name |-> <<101, 117, 99, 99, 110>>, codec |-> "gb2312"],  \* euccn
       [name |-> <<101, 117, 99, 103, 98, 50, 51, 49, 50, 95, 99, 110>>, codec |-> "gb2312"],  \* eucgb2312_cn
       [name |-> <<103, 98, 50, 51, 49, 50, 95, 49, 57, 56, 48>>, codec |-> "gb2312"],  \* gb2312_1980
       [name |-> <<103, 98, 50, 51, 49, 50, 95, 56, 48>>, codec |-> "gb2312"],  \* gb2312_80
       [name |-> <<105, 115, 111, 95, 105, 114, 95, 53, 56>>, codec |-> "gb2312"],  \* iso_ir_58
       [name |-> <<120, 95, 109, 97, 99, 95, 115, 105, 109, 112, 95, 99, 104, 105, 110, 101, 115, 101>>, codec |-> "gb2312"],  \* x_mac_simp_chinese
       [name |-> <<57, 51, 54>>, codec |-> "gbk"],  \* 936
       [name |-> <<99, 112, 57, 51, 54>>, codec |-> "gbk"],  \* cp936
       [name |-> <<109, 115, 57, 51, 54>>, codec |-> "gbk"],  \* ms936
       [name |-> <<104, 101, 120>>, codec |-> "hex_codec"],  \* hex
       [name |-> <<99, 112, 49, 48, 53, 49>>, codec |-> "hp_roman8"],  \* cp1051
       [name |-> <<99, 115, 72, 80, 82, 111, 109, 97, 110, 56>>, codec |-> "hp_roman8"],  \* csHPRoman8
       [name |-> <<105, 98, 109, 49, 48, 53, 49>>, codec |-> "hp_roman8"],  \* ibm1051
       [name |-> <<114, 56>>, codec |-> "hp_roman8"],  \* r8
       [name |-> <<114, 111, 109, 97, 110, 56>>, codec |-> "hp_roman8"],  \* roman8
       [name |-> <<104, 122, 95, 103, 98>>, codec |-> "hz"],  \* hz_gb
       [name |-> <<104, 122, 95, 103, 98, 95, 50, 51, 49, 50>>, codec |-> "hz"],  \* hz_gb_2312
       [name |-> <<104, 122, 103, 98>>, codec |-> "hz"],  \* hzgb
       [name |-> <<99, 115, 105, 115, 111, 50, 48, 50, 50, 106, 112>>, codec |-> "iso2022_jp"],  \* csiso2022jp
       [name |-> <<105, 115, 111, 50, 48, 50, 50, 106, 112>>, codec |-> "iso2022_jp"],  \* iso2022jp
       [name |-> <<105, 115, 111, 95, 50, 48, 50, 50, 95, 106, 112>>, codec |-> "iso2022_jp"],  \* iso_2022_jp
       [name |-> <<105, 115, 111, 50, 48, 50, 50, 106, 112, 95, 49>>, codec |-> "iso2022_jp_1"],  \* iso2022jp_1
       [name |-> <<105, 115, 111, 95, 50, 48, 50, 50, 95, 106, 112, 95, 49>>, codec |-> "iso2022_jp_1"],  \* iso_2022_jp_1
       [name |-> <<105, 115, 111, 50, 48, 50, 50, 106, 112, 95, 50>>, codec |-> "iso2022_jp_2"],  \* iso2022jp_2
       [name |-> <<105, 115, 111, 95, 50, 48, 50, 50, 95, 106, 112, 95, 50>>, codec |-> "iso2022_jp_2"],  \* iso_2022_jp_2
       [name |-> <<105, 115, 111, 50, 48, 50, 50, 106, 112, 95, 50, 48, 48, 52>>, codec |-> "iso2022_jp_2004"],  \* iso2022jp_2004
       [name |-> <<105, 115, 111, 95, 50, 48, 50, 50, 95, 106, 112, 95, 50, 48, 48, 52>>, codec |-> "iso2022_jp_2004"],  \* iso_2022_jp_2004
       [name |-> <<105, 115, 111, 50, 48, 50, 50, 106, 112, 95, 51>>, codec |-> "iso2022_jp_3"],  \* iso2022jp_3
       [name |-> <<105, 115, 111, 95, 50, 48, 50, 50, 95, 106, 112, 95, 51>>, codec |-> "iso2022_jp_3"],  \* iso_2022_jp_3
       [name |-> <<105, 115, 111, 50, 48, 50, 50, 106, 112, 95, 101, 120, 116>>, codec |-> "iso2022_jp_ext"],  \* iso2022jp_ext
       [name |-> <<105, 115, 111, 95, 50, 48, 50, 50, 95, 106, 112, 95, 101, 120, 116>>, codec |-> "iso2022_jp_ext"],  \* iso_2022_jp_ext
       [name |-> <<99, 115, 105, 115, 111, 50, 48, 50, 50, 107, 114>>, codec |-> "iso2022_kr"],  \* csiso2022kr
       [name |-> <<105, 115, 111, 50, 48, 50, 50, 107, 114>>, codec |-> "iso2022_kr"],  \* iso2022kr
       [name |-> <<105, 115, 111, 95, 50, 48, 50, 50, 95, 107, 114>>, codec |-> "iso2022_kr"],  \* iso_2022_kr
       [name |-> <<99, 115, 105, 115, 111, 108, 97, 116, 105, 110, 54>>, codec |-> "iso8859_10"],  \* csisolatin6
       [name |-> <<105, 115, 111, 95, 56, 56, 53, 57, 95, 49, 48>>, codec |-> "iso8859_10"],  \* iso_8859_10
       [name |-> <<105, 115, 111, 95, 56, 56, 53, 57, 95, 49, 48, 95, 49, 57, 57, 50>>, codec |-> "iso8859_10"],  \* iso_8859_10_1992
       [name |-> <<105, 115, 111, 95, 105, 114, 95, 49, 53, 55>>, codec |-> "iso8859_10"],  \* iso_ir_157
       [name |-> <<108, 54>>, codec |-> "iso8859_10"],  \* l6
       [name |-> <<108, 97, 116, 105, 110, 54>>, codec |-> "iso8859_10"],  \* latin6
       [name |-> <<105, 115, 111, 95, 56, 56, 53, 57, 95, 49, 49>>, codec |-> "iso8859_11"],  \* iso_8859_11
       [name |-> <<105, 115, 111, 95, 56, 56, 53, 57, 95, 49, 49, 95, 50, 48, 48, 49>>, codec |-> "iso8859_11"],  \* iso_8859_11_2001
       [name |-> <<116, 104, 97, 105>>, codec |-> "iso8859_11"],  \* thai
       [name |-> <<105, 115, 111, 95, 56, 56, 53, 57, 95, 49, 51>>, codec |-> "iso8859_13"],  \* iso_8859_13
       [name |-> <<108, 55>>, codec |-> "iso8859_13"],  \* l7
       [name |-> <<108, 97, 116, 105, 110, 55>>, codec |-> "iso8859_13"],  \* latin7
       [name |-> <<105, 115, 111, 95, 56, 56, 53, 57, 95, 49, 52>>, codec |-> "iso8859_14"],  \* iso_8859_14
       [name |-> <<105, 115, 111, 95, 56, 56, 53, 57, 95, 49, 52, 95, 49, 57, 57, 56>>, codec |-> "iso8859_14"],  \* iso_8859_14_1998
       [name |-> <<105, 115, 111, 95, 99, 101, 108, 116, 105, 99>>, codec |-> "iso8859_14"],  \* iso_celtic
       [name |-> <<105, 115, 111, 95, 105, 114, 95, 49, 57, 57>>, codec |-> "iso8859_14"],  \* iso_ir_199
       [name |-> <<108, 56>>, codec |-> "iso8859_14"],  \* l8
       [name |-> <<108, 97, 116, 105, 110, 56>>, codec |-> "iso8859_14"],  \* latin8
       [name |-> <<105, 115, 111, 95, 56, 56, 53, 57, 95, 49, 53>>, codec |-> "iso8859_15"],  \* iso_8859_15
       [name |-> <<108, 57>>, codec |-> "iso8859_15"],  \* l9
       [name |-> <<108, 97, 116, 105, 110, 57>>, codec |-> "iso8859_15"],  \* latin9
       [name |-> <<105, 115, 111, 95, 56, 56, 53, 57, 95, 49, 54>>, codec |-> "iso8859_16"],  \* iso_8859_16
       [name |-> <<105, 115, 111, 95, 56, 56, 53, 57, 95, 49, 54, 95, 50, 48, 48, 49>>, codec |-> "iso8859_16"],  \* iso_8859_16_2001
       [name |-> <<105, 115, 111, 95, 105, 114, 95, 50, 50, 54>>, codec |-> "iso8859_16"],  \* iso_ir_226
       [name |-> <<108, 49, 48>>, codec |-> "iso8859_16"],  \* l10
       [name |-> <<108, 97, 116, 105, 110, 49, 48>>, codec |-> "iso8859_16"],  \* latin10
       [name |-> <<99, 115, 105, 115, 111, 108, 97, 116, 105, 110, 50>>, codec |-> "iso8859_2"],  \* csisolatin2
       [name |-> <<105, 115, 111, 95, 56, 56, 53, 57, 95, 50>>, codec |-> "iso8859_2"],  \* iso_8859_2
       [name |-> <<105, 115, 111, 95, 56, 56, 53, 57, 95, 50, 95, 49, 57, 56, 55>>, codec |-> "iso8859_2"],  \* iso_8859_2_1987
       [name |-> <<105, 115, 111, 95, 105, 114, 95, 49, 48, 49>>, codec |-> "iso8859_2"],  \* iso_ir_101
       [name |-> <<108, 50>>, codec |-> "iso8859_2"],  \* l2
       [name |-> <<108, 97, 116, 105, 110, 50>>, codec |-> "iso8859_2"],  \* latin2
       [name |-> <<99, 115, 105, 115, 111, 108, 97, 116, 105, 110, 51>>, codec |-> "iso8859_3"],  \* csisolatin3
       [name |-> <<105, 115, 111, 95, 56, 56, 53, 57, 95, 51>>, codec |-> "iso8859_3"],  \* iso_8859_3
       [name |-> <<105, 115, 111, 95, 56, 56, 53, 57, 95, 51, 95, 49, 57, 56, 56>>, codec |-> "iso8859_3"],  \* iso_8859_3_1988
       [name |-> <<105, 115, 111, 95, 105, 114, 95, 49, 48, 57>>, codec |-> "iso8859_3"],  \* iso_ir_109
       [name |-> <<108, 51>>, codec |-> "iso8859_3"],  \* l3
       [name |-> <<108, 97, 116, 105, 110, 51>>, codec |-> "iso8859_3"],  \* latin3
       [name |-> <<99, 115, 105, 115, 111, 108, 97, 116, 105, 110, 52>>, codec |-> "iso8859_4"],  \* csisolatin4
       [name |-> <<105, 115, 111, 95, 56, 56, 53, 57, 95, 52>>, codec |-> "iso8859_4"],  \* iso_8859_4
       [name |-> <<105, 115, 111, 95, 56, 56, 53, 57, 95, 52, 95, 49, 57, 56, 56>>, codec |-> "iso8859_4"],  \* iso_8859_4_1988
       [name |-> <<105, 115, 111, 95, 105, 114, 95, 49, 49, 48>>, codec |-> "iso8859_4"],  \* iso_ir_110
       [name |-> <<108, 52>>, codec |-> "iso8859_4"],  \* l4
       [name |-> <<108, 97, 116, 105, 110, 52>>, codec |-> "iso8859_4"],  \* latin4
       [name |-> <<99, 115, 105, 115, 111, 108, 97, 116, 105, 110, 99, 121, 114, 105, 108, 108, 105, 99>>, codec |-> "iso8859_5"],  \* csisolatincyrillic
       [name |-> <<99, 121, 114, 105, 108, 108, 105, 99>>, codec |-> "iso8859_5"],  \* cyrillic
       [name |-> <<105, 115, 111, 95, 56, 56, 53, 57, 95, 53>>, codec |-> "iso8859_5"],  \* iso_8859_5
       [name |-> <<105, 115, 111, 95, 56, 56, 53, 57, 95, 53, 95, 49, 57, 56, 56>>, codec |-> "iso8859_5"],  \* iso_8859_5_1988
       [name |-> <<105, 115, 111, 95, 105, 114, 95, 49, 52, 52>>, codec |-> "iso8859_5"],  \* iso_ir_144
       [name |-> <<97, 114, 97, 98, 105, 99>>, codec |-> "iso8859_6"],  \* arabic
       [name |-> <<97, 115, 109, 111, 95, 55, 48, 56>>, codec |-> "iso8859_6"],  \* asmo_708
       [name |-> <<99, 115, 105, 115, 111, 108, 97, 116, 105, 110, 97, 114, 97, 98, 105, 99>>, codec |-> "iso8859_6"],  \* csisolatinarabic
       [name |-> <<101, 99, 109, 97, 95, 49, 49, 52>>, codec |-> "iso8859_6"],  \* ecma_114
       [name |-> <<105, 115, 111, 95, 56, 56, 53, 57, 95, 54>>, codec |-> "iso8859_6"],  \* iso_8859_6
       [name |-> <<105, 115, 111, 95, 56, 56, 53, 57, 95, 54, 95, 49, 57, 56, 55>>, codec |-> "iso8859_6"],  \* iso_8859_6_1987
       [name |-> <<105, 115, 111, 95, 105, 114, 95, 49, 50, 55>>, codec |-> "iso8859_6"],  \* iso_ir_127
       [name |-> <<99, 115, 105, 115, 111, 108, 97, 116, 105, 110, 103, 114, 101, 101, 107>>, codec |-> "iso8859_7"],  \* csisolatingreek
       [name |-> <<101, 99, 109, 97, 95, 49, 49, 56>>, codec |-> "iso8859_7"],  \* ecma_118
       [name |-> <<101, 108, 111, 116, 95, 57, 50, 56>>, codec |-> "iso8859_7"],  \* elot_928
       [name |-> <<103, 114, 101, 101, 107>>, codec |-> "iso8859_7"],  \* greek
       [name |-> <<103, 114, 101, 101, 107, 56>>, codec |-> "iso8859_7"],  \* greek8
       [name |-> <<105, 115, 111, 95, 56, 56, 53, 57, 95, 55>>, codec |-> "iso8859_7"],  \* iso_8859_7
       [name |-> <<105, 115, 111, 95, 56, 56, 53, 57, 95, 55, 95, 49, 57, 56, 55>>, codec |-> "iso8859_7"],  \* iso_8859_7_1987
       [name |-> <<105, 115, 111, 95, 105, 114, 95, 49, 50, 54>>, codec |-> "iso8859_7"],  \* iso_ir_126
       [name |-> <<99, 115, 105, 115, 111, 108, 97, 116, 105, 110, 104, 101, 98, 114, 101, 119>>, codec |-> "iso8859_8"],  \* csisolatinhebrew
       [name |-> <<104, 101, 98, 114, 101, 119>>, codec |-> "iso8859_8"],  \* hebrew
       [name |-> <<105, 115, 111, 95, 56, 56, 53, 57, 95, 56>>, codec |-> "iso8859_8"],  \* iso_8859_8
       [name |-> <<105, 115, 111, 95, 56, 56, 53, 57, 95, 56, 95, 49, 57, 56, 56>>, codec |-> "iso8859_8"],  \* iso_8859_8_1988
       [name |-> <<105, 115, 111, 95, 105, 114, 95, 49, 51, 56>>, codec |-> "iso8859_8"],  \* iso_ir_138
       [name |-> <<99, 115, 105, 115, 111, 108, 97, 116, 105, 110, 53>>, codec |-> "iso8859_9"],  \* csisolatin5
       [name |-> <<105, 115, 111, 95, 56, 56, 53, 57, 95, 57>>, codec |-> "iso8859_9"],  \* iso_8859_9
       [name |-> <<105, 115, 111, 95, 56, 56, 53, 57, 95, 57, 95, 49, 57, 56, 57>>, codec |-> "iso8859_9"],  \* iso_8859_9_1989
       [name |-> <<105, 115, 111, 95, 105, 114, 95, 49, 52, 56>>, codec |-> "iso8859_9"],  \* iso_ir_148
       [name |-> <<108, 53>>, codec |-> "iso8859_9"],  \* l5
       [name |-> <<108, 97, 116, 105, 110, 53>>, codec |-> "iso8859_9"],  \* latin5
       [name |-> <<99, 112, 49, 51, 54, 49>>, codec |-> "johab"],  \* cp1361
       [name |-> <<109, 115, 49, 51, 54, 49>>, codec |-> "johab"],  \* ms1361
       [name |-> <<99, 115, 107, 111, 105, 56, 114>>, codec |-> "koi8_r"],  \* cskoi8r
       [name |-> <<107, 122, 95, 49, 48, 52, 56>>, codec |-> "kz1048"],  \* kz_1048
       [name |-> <<114, 107, 49, 48, 52, 56>>, codec |-> "kz1048"],  \* rk1048
       [name |-> <<115, 116, 114, 107, 49, 48, 52, 56, 95, 50, 48, 48, 50>>, codec |-> "kz1048"],  \* strk1048_2002
       [name |-> <<56, 56, 53, 57>>, codec |-> "latin_1"],  \* 8859
       [name |-> <<99, 112, 56, 49, 57>>, codec |-> "latin_1"],  \* cp819
       [name |-> <<99, 115, 105, 115, 111, 108, 97, 116, 105, 110, 49>>, codec |-> "latin_1"],  \* csisolatin1
       [name |-> <<105, 98, 109, 56, 49, 57>>, codec |-> "latin_1"],  \* ibm819
       [name |-> <<105, 115, 111, 56, 56, 53, 57>>, codec |-> "latin_1"],  \* iso8859
       [name |-> <<105, 115, 111, 56, 56, 53, 57, 95, 49>>, codec |-> "latin_1"],  \* iso8859_1
       [name |-> <<105, 115, 111, 95, 56, 56, 53, 57, 95, 49>>, codec |-> "latin_1"],  \* iso_8859_1
       [name |-> <<105, 115, 111, 95, 56, 56, 53, 57, 95, 49, 95, 49, 57, 56, 55>>, codec |-> "latin_1"],  \* iso_8859_1_1987
       [name |-> <<105, 115, 111, 95, 105, 114, 95, 49, 48, 48>>, codec |-> "latin_1"],  \* iso_ir_100
       [name |-> <<108, 49>>, codec |-> "latin_1"],  \* l1
       [name |-> <<108, 97, 116, 105, 110>>, codec |-> "latin_1"],  \* latin
       [name |-> <<108, 97, 116, 105, 110, 49>>, codec |-> "latin_1"],  \* latin1
       [name |-> <<109, 97, 99, 99, 121, 114, 105, 108, 108, 105, 99>>, codec |-> "mac_cyrillic"],  \* maccyrillic
       [name |-> <<109, 97, 99, 103, 114, 101, 101, 107>>, codec |-> "mac_greek"],  \* macgreek
       [name |-> <<109, 97, 99, 105, 99, 101, 108, 97, 110, 100>>, codec |-> "mac_iceland"],  \* maciceland
       [name |-> <<109, 97, 99, 95, 99, 101, 110, 116, 101, 117, 114, 111>>, codec |-> "mac_latin2"],  \* mac_centeuro
       [name |-> <<109, 97, 99, 99, 101, 110, 116, 114, 97, 108, 101, 117, 114, 111, 112, 101>>, codec |-> "mac_latin2"],  \* maccentraleurope
       [name |-> <<109, 97, 99, 108, 97, 116, 105, 110, 50>>, codec |-> "mac_latin2"],  \* maclatin2
       [name |-> <<109, 97, 99, 105, 110, 116, 111, 115, 104>>, codec |-> "mac_roman"],  \* macintosh
       [name |-> <<109, 97, 99, 114, 111, 109, 97, 110>>, codec |-> "mac_roman"],  \* macroman
       [name |-> <<109, 97, 99, 116, 117, 114, 107, 105, 115, 104>>, codec |-> "mac_turkish"],  \* macturkish
       [name |-> <<97, 110, 115, 105>>, codec |-> "mbcs"],  \* ansi
       [name |-> <<100, 98, 99, 115>>, codec |-> "mbcs"],  \* dbcs
       [name |-> <<99, 112, 49, 53, 52>>, codec |-> "ptcp154"],  \* cp154
       [name |-> <<99, 115, 112, 116, 99, 112, 49, 53, 52>>, codec |-> "ptcp154"],  \* csptcp154
       [name |-> <<99, 121, 114, 105, 108, 108, 105, 99, 95, 97, 115, 105, 97, 110>>, codec |-> "ptcp154"],  \* cyrillic_asian
       [name |-> <<112, 116, 49, 53, 52>>, codec |-> "ptcp154"],  \* pt154
       [name |-> <<113, 117, 111, 112, 114, 105>>, codec |-> "quopri_codec"],  \* quopri
       [name |-> <<113, 117, 111, 116, 101, 100, 95, 112, 114, 105, 110, 116, 97, 98, 108, 101>>, codec |-> "quopri_codec"],  \* quoted_printable
       [name |-> <<113, 117, 111, 116, 101, 100, 112, 114, 105, 110, 116, 97, 98, 108, 101>>, codec |-> "quopri_codec"],  \* quotedprintable
       [name |-> <<114, 111, 116, 49, 51>>, codec |-> "rot_13"],  \* rot13
       [name |-> <<99, 115, 115, 104, 105, 102, 116, 106, 105, 115>>, codec |-> "shift_jis"],  \* csshiftjis
       [name |-> <<115, 95, 106, 105, 115>>, codec |-> "shift_jis"],  \* s_jis
       [name |-> <<115, 104, 105, 102, 116, 106, 105, 115>>, codec |-> "shift_jis"],  \* shiftjis
       [name |-> <<115, 106, 105, 115>>, codec |-> "shift_jis"],  \* sjis
       [name |-> <<120, 95, 109, 97, 99, 95, 106, 97, 112, 97, 110, 101, 115, 101>>, codec |-> "shift_jis"],  \* x_mac_japanese
       [name |-> <<115, 95, 106, 105, 115, 95, 50, 48, 48, 52>>, codec |-> "shift_jis_2004"],  \* s_jis_2004
       [name |-> <<115, 104, 105, 102, 116, 106, 105, 115, 50, 48, 48, 52>>, codec |-> "shift_jis_2004"],  \* shiftjis2004
       [name |-> <<115, 106, 105, 115, 95, 50, 48, 48, 52>>, codec |-> "shift_jis_2004"],  \* sjis_2004
       [name |-> <<115, 95, 106, 105, 115, 120, 48, 50, 49, 51>>, codec |-> "shift_jisx0213"],  \* s_jisx0213
       [name |-> <<115, 104, 105, 102, 116, 106, 105, 115, 120, 48, 50, 49, 51>>, codec |-> "shift_jisx0213"],  \* shiftjisx0213
       [name |-> <<115, 106, 105, 115, 120, 48, 50, 49, 51>>, codec |-> "shift_jisx0213"],  \* sjisx0213
       [name |-> <<105, 115, 111, 95, 105, 114, 95, 49, 54, 54>>, codec |-> "tis_620"],  \* iso_ir_166
       [name |-> <<116, 105, 115, 54, 50, 48>>, codec |-> "tis_620"],  \* tis620
       [name |-> <<116, 105, 115, 95, 54, 50, 48, 95, 48>>, codec |-> "tis_620"],  \* tis_620_0
       [name |-> <<116, 105, 115, 95, 54, 50, 48, 95, 50, 53, 50, 57, 95, 48>>, codec |-> "tis_620"],  \* tis_620_2529_0
       [name |-> <<116, 105, 115, 95, 54, 50, 48, 95, 50, 53, 50, 57, 95, 49>>, codec |-> "tis_620"],  \* tis_620_2529_1
       [name |-> <<117, 49, 54>>, codec |-> "utf_16"],  \* u16
       [name |-> <<117, 116, 102, 49, 54>>, codec |-> "utf_16"],  \* utf16
       [name |-> <<117, 110, 105, 99, 111, 100, 101, 98, 105, 103, 117, 110, 109, 97, 114, 107, 101, 100>>, codec |-> "utf_16_be"],  \* unicodebigunmarked
       [name |-> <<117, 116, 102, 95, 49, 54, 98, 101>>, codec |-> "utf_16_be"],  \* utf_16be
       [name |-> <<117, 110, 105, 99, 111, 100, 101, 108, 105, 116, 116, 108, 101, 117, 110, 109, 97, 114, 107, 101, 100>>, codec |-> "utf_16_le"],  \* unicodelittleunmarked
       [name |-> <<117, 116, 102, 95, 49, 54, 108, 101>>, codec |-> "utf_16_le"],  \* utf_16le
       [name |-> <<117, 51, 50>>, codec |-> "utf_32"],  \* u32
       [name |-> <<117, 116, 102, 51, 50>>, codec |-> "utf_32"],  \* utf32
       [name |-> <<117, 116, 102, 95, 51, 50, 98, 101>>, codec |-> "utf_32_be"],  \* utf_32be
       [name |-> <<117, 116, 102, 95, 51, 50, 108, 101>>, codec |-> "utf_32_le"],  \* utf_32le
       [name |-> <<117, 55>>, codec |-> "utf_7"],  \* u7
       [name |-> <<117, 110, 105, 99, 111, 100, 101, 95, 49, 95, 49, 95, 117, 116, 102, 95, 55>>, codec |-> "utf_7"],  \* unicode_1_1_utf_7
       [name |-> <<117, 116, 102, 55>>, codec |-> "utf_7"],  \* utf7
       [name |-> <<99, 112, 54, 53, 48, 48, 49>>, codec |-> "utf_8"],  \* cp65001
       [name |-> <<117, 56>>, codec |-> "utf_8"],  \* u8
       [name |-> <<117, 116, 102>>, codec |-> "utf_8"],  \* utf
       [name |-> <<117, 116, 102, 56>>, codec |-> "utf_8"],  \* utf8
       [name |-> <<117, 116, 102, 56, 95, 117, 99, 115, 50>>, codec |-> "utf_8"],  \* utf8_ucs2
       [name |-> <<117, 116, 102, 56, 95, 117, 99, 115, 52>>, codec |-> "utf_8"],  \* utf8_ucs4
       [name |-> <<117, 117>>, codec |-> "uu_codec"],  \* uu
       [name |-> <<122, 105, 112>>, codec |-> "zlib_codec"],  \* zip
       [name |-> <<122, 108, 105, 98>>, codec |-> "zlib_codec"]  \* zlib
    >>

\* The codec modules of the encodings package that can be imported (mbcs and
\* oem can be on Windows only).
CodecModules ==
    <<
       [name |-> <<97, 115, 99, 105, 105>>, codec |-> "ascii"],  \* ascii
       [name |-> <<98, 97, 115, 101, 54, 52, 95, 99, 111, 100, 101, 99>>, codec |-> "base64_codec"],  \* base64_codec
       [name |-> <<98, 105, 103, 53>>, codec |-> "big5"],  \* big5
       [name |-> <<98, 105, 103, 53, 104, 107, 115, 99, 115>>, codec |-> "big5hkscs"],  \* big5hkscs
       [name |-> <<98, 122, 50, 95, 99, 111, 100, 101, 99>>, codec |-> "bz2_codec"],  \* bz2_codec
       [name |-> <<99, 104, 97, 114, 109, 97, 112>>, codec |-> "charmap"],  \* charmap
       [name |-> <<99, 112, 48, 51, 55>>, codec |-> "cp037"],  \* cp037
       [name |-> <<99, 112, 49, 48, 48, 54>>, codec |-> "cp1006"],  \* cp1006
       [name |-> <<99, 112, 49, 48, 50, 54>>, codec |-> "cp1026"],  \* cp1026
       [name |-> <<99, 112, 49, 49, 50, 53>>, codec |-> "cp1125"],  \* cp1125
       [name |-> <<99, 112, 49, 49, 52, 48>>, codec |-> "cp1140"],  \* cp1140
       [name |-> <<99, 112, 49, 50, 53, 48>>, codec |-> "cp1250"],  \* cp1250
       [name |-> <<99, 112, 49, 50, 53, 49>>, codec |-> "cp1251"],  \* cp1251
       [name |-> <<99, 112, 49, 50, 53, 50>>, codec |-> "cp1252"],  \* cp1252
       [name |-> <<99, 112, 49, 50, 53, 51>>, codec |-> "cp1253"],  \* cp1253
       [name |-> <<99, 112, 49, 50, 53, 52>>, codec |-> "cp1254"],  \* cp1254
       [name |-> <<99, 112, 49, 50, 53, 53>>, codec |-> "cp1255"],  \* cp1255
       [name |-> <<99, 112, 49, 50, 53, 54>>, codec |-> "cp1256"],  \* cp1256
       [name |-> <<99, 112, 49, 50, 53, 55>>, codec |-> "cp1257"],  \* cp1257
       [name |-> <<99, 112, 49, 50, 53, 56>>, codec |-> "cp1258"],  \* cp1258
       [name |-> <<99, 112, 50, 55, 51>>, codec |-> "cp273"],  \* cp273
       [name |-> <<99, 112, 52, 50, 52>>, codec |-> "cp424"],  \* cp424
       [name |-> <<99, 112, 52, 51, 55>>, codec |-> "cp437"],  \* cp437
       [name |-> <<99, 112, 53, 48, 48>>, codec |-> "cp500"],  \* cp500
       [name |-> <<99, 112, 55, 50, 48>>, codec |-> "cp720"],  \* cp720
       [name |-> <<99, 112, 55, 51, 55>>, codec |-> "cp737"],  \* cp737
       [name |-> <<99, 112, 55, 55, 53>>, codec |-> "cp775"],  \* cp775
       [name |-> <<99, 112, 56, 53, 48>>, codec |-> "cp850"],  \* cp850
       [name |-> <<99, 112, 56, 53, 50>>, codec |-> "cp852"],  \* cp852
       [name |-> <<99, 112, 56, 53, 53>>, codec |-> "cp855"],  \* cp855
       [name |-> <<99, 112, 56, 53, 54>>, codec |-> "cp856"],  \* cp856
       [name |-> <<99, 112, 56, 53, 55>>, codec |-> "cp857"],  \* cp857
       [name |-> <<99, 112, 56, 53, 56>>, codec |-> "cp858"],  \* cp858
       [name |-> <<99, 112, 56, 54, 48>>, codec |-> "cp860"],  \* cp860
       [name |-> <<99, 112, 56, 54, 49>>, codec |-> "cp861"],  \* cp861
       [name |-> <<99, 112, 56, 54, 50>>, codec |-> "cp862"],  \* cp862
       [name |-> <<99, 112, 56, 54, 51>>, codec |-> "cp863"],  \* cp863
       [name |-> <<99, 112, 56, 54, 52>>, codec |-> "cp864"],  \* cp864
       [name |-> <<99, 112, 56, 54, 53>>, codec |-> "cp865"],  \* cp865
       [name |-> <<99, 112, 56, 54, 54>>, codec |-> "cp866"],  \* cp866
       [name |-> <<99, 112, 56, 54, 57>>, codec |-> "cp869"],  \* cp869
       [name |-> <<99, 112, 56, 55, 52>>, codec |-> "cp874"],  \* cp874
       [name |-> <<99, 112, 56, 55, 53>>, codec |-> "cp875"],  \* cp875
       [name |-> <<99, 112, 57, 51, 50>>, codec |-> "cp932"],  \* cp932
       [name |-> <<99, 112, 57, 52, 57>>, codec |-> "cp949"],  \* cp949
       [name |-> <<99, 112, 57, 53, 48>>, codec |-> "cp950"],  \* cp950
       [name |-> <<101, 117, 99, 95, 106, 105, 115, 95, 50, 48, 48, 52>>, codec |-> "euc_jis_2004"],  \* euc_jis_2004
       [name |-> <<101, 117, 99, 95, 106, 105, 115, 120, 48, 50, 49, 51>>, codec |-> "euc_jisx0213"],  \* euc_jisx0213
       [name |-> <<101, 117, 99, 95, 106, 112>>, codec |-> "euc_jp"],  \* euc_jp
       [name |-> <<101, 117, 99, 95, 107, 114>>, codec |-> "euc_kr"],  \* euc_kr
       [name |-> <<103, 98, 49, 56, 48, 51, 48>>, codec |-> "gb18030"],  \* gb18030
       [name |-> <<103, 98, 50, 51, 49, 50>>, codec |-> "gb2312"],  \* gb2312
       [name |-> <<103, 98, 107>>, codec |-> "gbk"],  \* gbk
       [name |-> <<104, 101, 120, 95, 99, 111, 100, 101, 99>>, codec |-> "hex_codec"],  \* hex_codec
       [name |-> <<104, 112, 95, 114, 111, 109, 97, 110, 56>>, codec |-> "hp_roman8"],  \* hp_roman8
       [name |-> <<104, 122>>, codec |-> "hz"],  \* hz
       [name |-> <<105, 100, 110, 97>>, codec |-> "idna"],  \* idna
       [name |-> <<105, 115, 111, 50, 48, 50, 50, 95, 106, 112>>, codec |-> "iso2022_jp"],  \* iso2022_jp
       [name |-> <<105, 115, 111, 50, 48, 50, 50, 95, 106, 112, 95, 49>>, codec |-> "iso2022_jp_1"],  \* iso2022_jp_1
       [name |-> <<105, 115, 111, 50, 48, 50, 50, 95, 106, 112, 95, 50>>, codec |-> "iso2022_jp_2"],  \* iso2022_jp_2
       [name |-> <<105, 115, 111, 50, 48, 50, 50, 95, 106, 112, 95, 50, 48, 48, 52>>, codec |-> "iso2022_jp_2004"],  \* iso2022_jp_2004
       [name |-> <<105, 115, 111, 50, 48, 50, 50, 95, 106, 112, 95, 51>>, codec |-> "iso2022_jp_3"],  \* iso2022_jp_3
       [name |-> <<105, 115, 111, 50, 48, 50, 50, 95, 106, 112, 95, 101, 120, 116>>, codec |-> "iso2022_jp_ext"],  \* iso2022_jp_ext
       [name |-> <<105, 115, 111, 50, 48, 50, 50, 95, 107, 114>>, codec |-> "iso2022_kr"],  \* iso2022_kr
       [name |-> <<105, 115, 111, 56, 56, 53, 57, 95, 49>>, codec |-> "iso8859_1"],  \* iso8859_1
       [name |-> <<105, 115, 111, 56, 56, 53, 57, 95, 49, 48>>, codec |-> "iso8859_10"],  \* iso8859_10
       [name |-> <<105, 115, 111, 56, 56, 53, 57, 95, 49, 49>>, codec |-> "iso8859_11"],  \* iso8859_11
       [name |-> <<105, 115, 111, 56, 56, 53, 57, 95, 49, 51>>, codec |-> "iso8859_13"],  \* iso8859_13
       [name |-> <<105, 115, 111, 56, 56, 53, 57, 95, 49, 52>>, codec |-> "iso8859_14"],  \* iso8859_14
       [name |-> <<105, 115, 111, 56, 56, 53, 57, 95, 49, 53>>, codec |-> "iso8859_15"],  \* iso8859_15
       [name |-> <<105, 115, 111, 56, 56, 53, 57, 95, 49, 54>>, codec |-> "iso8859_16"],  \* iso8859_16
       [name |-> <<105, 115, 111, 56, 56, 53, 57, 95, 50>>, codec |-> "iso8859_2"],  \* iso8859_2
       [name |-> <<105, 115, 111, 56, 56, 53, 57, 95, 51>>, codec |-> "iso8859_3"],  \* iso8859_3
       [name |-> <<105, 115, 111, 56, 56, 53, 57, 95, 52>>, codec |-> "iso8859_4"],  \* iso8859_4
       [name |-> <<105, 115, 111, 56, 56, 53, 57, 95, 53>>, codec |-> "iso8859_5"],  \* iso8859_5
       [name |-> <<105, 115, 111, 56, 56, 53, 57, 95, 54>>, codec |-> "iso8859_6"],  \* iso8859_6
       [name |-> <<105, 115, 111, 56, 56, 53, 57, 95, 55>>, codec |-> "iso8859_7"],  \* iso8859_7
       [name |-> <<105, 115, 111, 56, 56, 53, 57, 95, 56>>, codec |-> "iso8859_8"],  \* iso8859_8
       [name |-> <<105, 115, 111, 56, 56, 53, 57, 95, 57>>, codec |-> "iso8859_9"],  \* iso8859_9
       [name |-> <<106, 111, 104, 97, 98>>, codec |-> "johab"],  \* johab
       [name |-> <<107, 111, 105, 56, 95, 114>>, codec |-> "koi8_r"],  \* koi8_r
       [name |-> <<107, 111, 105, 56, 95, 116>>, codec |-> "koi8_t"],  \* koi8_t
       [name |-> <<107, 111, 105, 56, 95, 117>>, codec |-> "koi8_u"],  \* koi8_u
       [name |-> <<107, 122, 49, 48, 52, 56>>, codec |-> "kz1048"],  \* kz1048
       [name |-> <<108, 97, 116, 105, 110, 95, 49>>, codec |-> "latin_1"],  \* latin_1
       [name |-> <<109, 97, 99, 95, 97, 114, 97, 98, 105, 99>>, codec |-> "mac_arabic"],  \* mac_arabic
       [name |-> <<109, 97, 99, 95, 99, 114, 111, 97, 116, 105, 97, 110>>, codec |-> "mac_croatian"],  \* mac_croatian
       [name |-> <<109, 97, 99, 95, 99, 121, 114, 105, 108, 108, 105, 99>>, codec |-> "mac_cyrillic"],  \* mac_cyrillic
       [name |-> <<109, 97, 99, 95, 102, 97, 114, 115, 105>>, codec |-> "mac_farsi"],  \* mac_farsi
       [name |-> <<109, 97, 99, 95, 103, 114, 101, 101, 107>>, codec |-> "mac_greek"],  \* mac_greek
       [name |-> <<109, 97, 99, 95, 105, 99, 101, 108, 97, 110, 100>>, codec |-> "mac_iceland"],  \* mac_iceland
       [name |-> <<109, 97, 99, 95, 108, 97, 116, 105, 110, 50>>, codec |-> "mac_latin2"],  \* mac_latin2
       [name |-> <<109, 97, 99, 95, 114, 111, 109, 97, 110>>, codec |-> "mac_roman"],  \* mac_roman
       [name |-> <<109, 97, 99, 95, 114, 111, 109, 97, 110, 105, 97, 110>>, codec |-> "mac_romanian"],  \* mac_romanian
       [name |-> <<109, 97, 99, 95, 116, 117, 114, 107, 105, 115, 104>>, codec |-> "mac_turkish"],  \* mac_turkish
       [name |-> <<112, 97, 108, 109, 111, 115>>, codec |-> "palmos"],  \* palmos
       [name |-> <<112, 116, 99, 112, 49, 53, 52>>, codec |-> "ptcp154"],  \* ptcp154
       [name |-> <<112, 117, 110, 121, 99, 111, 100, 101>>, codec |-> "punycode"],  \* punycode
       [name |-> <<113, 117, 111, 112, 114, 105, 95, 99, 111, 100, 101, 99>>, codec |-> "quopri_codec"],  \* quopri_codec
       [name |-> <<114, 97, 119, 95, 117, 110, 105, 99, 111, 100, 101, 95, 101, 115, 99, 97, 112, 101>>, codec |-> "raw_unicode_escape"],  \* raw_unicode_escape
       [name |-> <<114, 111, 116, 95, 49, 51>>, codec |-> "rot_13"],  \* rot_13
       [name |-> <<115, 104, 105, 102, 116, 95, 106, 105, 115>>, codec |-> "shift_jis"],  \* shift_jis
       [name |-> <<115, 104, 105, 102, 116, 95, 106, 105, 115, 95, 50, 48, 48, 52>>, codec |-> "shift_jis_2004"],  \* shift_jis_2004
       [name |-> <<115, 104, 105, 102, 116, 95, 106, 105, 115, 120, 48, 50, 49, 51>>, codec |-> "shift_jisx0213"],  \* shift_jisx0213
       [name |-> <<116, 105, 115, 95, 54, 50, 48>>, codec |-> "tis_620"],  \* tis_620
       [name |-> <<117, 110, 100, 101, 102, 105, 110, 101, 100>>, codec |-> "undefined"],  \* undefined
       [name |-> <<117, 110, 105, 99, 111, 100, 101, 95, 101, 115, 99, 97, 112, 101>>, codec |-> "unicode_escape"],  \* unicode_escape
       [name |-> <<117, 116, 102, 95, 49, 54>>, codec |-> "utf_16"],  \* utf_16
       [name |-> <<117, 116, 102, 95, 49, 54, 95, 98, 101>>, codec |-> "utf_16_be"],  \* utf_16_be
       [name |-> <<117, 116, 102, 95, 49, 54, 95, 108, 101>>, codec |-> "utf_16_le"],  \* utf_16_le
       [name |-> <<117, 116, 102, 95, 51, 50>>, codec |-> "utf_32"],  \* utf_32
       [name |-> <<117, 116, 102, 95, 51, 50, 95, 98, 101>>, codec |-> "utf_32_be"],  \* utf_32_be
       [name |-> <<117, 116, 102, 95, 51, 50, 95, 108, 101>>, codec |-> "utf_32_le"],  \* utf_32_le
       [name |-> <<117, 116, 102, 95, 55>>, codec |-> "utf_7"],  \* utf_7
       [name |-> <<117, 116, 102, 95, 56>>, codec |-> "utf_8"],  \* utf_8
       [name |-> <<117, 116, 102, 95, 56, 95, 115, 105, 103>>, codec |-> "utf_8_sig"],  \* utf_8_sig
       [name |-> <<117, 117, 95, 99, 111, 100, 101, 99>>, codec |-> "uu_codec"],  \* uu_codec
       [name |-> <<122, 108, 105, 98, 95, 99, 111, 100, 101, 99>>, codec |-> "zlib_codec"]  \* zlib_codec
    >>

\* The modules that are codecs but no text encodings: bytes.decode refuses
\* them with a LookupError.
NoTextCodecs == {"base64_codec", "bz2_codec", "hex_codec", "quopri_codec", "rot_13", "uu_codec",
                "zlib_codec"}

RECURSIVE NormalizeFrom(_, _, _, _)
\* encodings.normalize_encoding from character i on: chars is the name so far,
\* punct whether punctuation was skipped since.  Letters, digits and the dot
\* stay, any run of other characters between them becomes one underscore.
NormalizeFrom(name, i, punct, chars) ==
    IF i > Len(name) THEN chars
    ELSE IF name[i] \in Letters \cup Digits \cup {Dot}
    THEN NormalizeFrom(name, i + 1, FALSE,
                       (IF punct /\ chars /= <<>> THEN chars \o <<Ord("_")>> ELSE chars)
                       \o <<name[i]>>)
    ELSE NormalizeFrom(name, i + 1, TRUE, chars)

\* The entry of names for the normalized name norm, or "unknown".
CodecAt(names, hits) ==
    IF hits = {} THEN "unknown" ELSE names[CHOOSE k \in hits : TRUE].codec

CodecCalled(names, norm) == CodecAt(names, {k \in 1..Len(names) : names[k].name = norm})

Undotted(norm) == [i \in 1..Len(norm) |-> IF norm[i] = Dot THEN Ord("_") ELSE norm[i]]

\* The names of a list of names.
NamesOf(names) == {names[k].name : k \in 1..Len(names)}

\* The two lists as dictionaries: the codec of each name.
AliasedCodec == [name \in NamesOf(CodecAliases) |-> CodecCalled(CodecAliases, name)]
ModuleCodec == [name \in NamesOf(CodecModules) |-> CodecCalled(CodecModules, name)]

\* The module the normalized name is an alias of, as it is or with its dots
\* made underscores; "unknown" for no alias.
Aliased(norm) ==
    IF norm \in DOMAIN AliasedCodec THEN AliasedCodec[norm]
    ELSE IF Undotted(norm) \in DOMAIN AliasedCodec THEN AliasedCodec[Undotted(norm)]
    ELSE "unknown"

\* encodings.search_function: the module the name is an alias of, if it can
\* be imported, else the module of that name.
CodecImported(aliased, norm) ==
    IF aliased \in {ModuleCodec[name] : name \in DOMAIN ModuleCodec} THEN aliased
    ELSE IF norm \in DOMAIN ModuleCodec THEN ModuleCodec[norm]
    ELSE "unknown"

CodecNamed(norm) == CodecImported(Aliased(norm), norm)

\* codecs.lookup: the codec a name stands for, whatever the case of its ASCII
\* letters, or "unknown".
CodecOf(encoding) == CodecNamed(NormalizeFrom(AsciiLower(encoding), 1, FALSE, <<>>))

\* An encoding name that is None and no str.
NoEncoding == <<-1>>

UnicodeError == [exc |-> "UnicodeError", text |-> <<>>]

\* The ASCII codec on all of b.
AsciiDecode(b, errors) ==
    IF b = <<>> THEN [exc |-> "none", text |-> <<>>]
    ELSE DecodeResult(DecodeFrom("ascii", b, 1, errors))

\* str.upper of an ASCII str.
AsciiUpper(s) ==
    [i \in 1..Len(s) |-> IF s[i] >= 97 /\ s[i] <= 122 THEN s[i] - 32 ELSE s[i]]

\* bytes.startswith.
BeginsWith(b, prefix) == Len(b) >= Len(prefix) /\ SubSeq(b, 1, Len(prefix)) = prefix

\* bytes.rfind of one byte: the last position of c in b, 0 when there is none.
LastIndex(b, c) ==
    IF \E i \in 1..Len(b) : b[i] = c
    THEN CHOOSE i \in 1..Len(b) : b[i] = c /\ \A j \in (i + 1)..Len(b) : b[j] /= c
    ELSE 0

(***************************************************************************)
(* encodings.punycode.                                                     *)
(***************************************************************************)
\* The digit of a character of the extended part: A-Z are 0 to 25, 0-9 are
\* 26 to 35, anything else is none (-1).
PunycodeDigit(char) ==
    IF char >= 65 /\ char <= 90 THEN char - 65
    ELSE IF char >= 48 /\ char <= 57 THEN char - 22
    ELSE -1

\* T(j, bias).
PunycodeT(j, bias) ==
    IF 36 * (j + 1) - bias < 1 THEN 1
    ELSE IF 36 * (j + 1) - bias > 26 THEN 26
    ELSE 36 * (j + 1) - bias

\* The numbers of the decoder are of any size (an int of Python): such a
\* number is written as its digits to the base 10000, the lowest first and
\* the highest other than 0, the number 0 having none.  The digits of n.
Limbs(n) ==
    IF n = 0 THEN <<>>
    ELSE IF n < 10000 THEN <<n>>
    ELSE IF n < 100000000 THEN <<n % 10000, n \div 10000>>
    ELSE <<n % 10000, (n \div 10000) % 10000, n \div 100000000>>

\* The number of at most two digits a.
BigValue(a) ==
    IF a = <<>> THEN 0 ELSE IF Len(a) = 1 THEN a[1] ELSE a[1] + 10000 * a[2]

RECURSIVE BigScaled(_, _, _)
\* a * m + c for m other than 0.
BigScaled(a, m, c) ==
    IF a = <<>> THEN Limbs(c)
    ELSE <<(a[1] * m + c) % 10000>> \o BigScaled(Tail(a), m, (a[1] * m + c) \div 10000)

\* a * m.
BigTimes(a, m) == IF m = 0 THEN <<>> ELSE BigScaled(a, m, 0)

RECURSIVE BigSum(_, _, _)
\* a + b + c.
BigSum(a, b, c) ==
    IF a = <<>> THEN BigScaled(b, 1, c)
    ELSE IF b = <<>> THEN BigScaled(a, 1, c)
    ELSE <<(a[1] + b[1] + c) % 10000>>
             \o BigSum(Tail(a), Tail(b), (a[1] + b[1] + c) \div 10000)

\* The digits a without the zeros at their end.
BigTrimmed(a) == SubSeq(a, 1, Cardinality({k \in 1..Len(a) : \E n \in k..Len(a) : a[n] /= 0}))

\* The division by m of the digits of a from number k on, higher being that
\* of the digits after it.
BigDigit(a, m, k, higher) ==
    [q |-> <<(higher.r * 10000 + a[k]) \div m>> \o higher.q,
     r |-> (higher.r * 10000 + a[k]) % m]

RECURSIVE BigDivided(_, _, _)
\* The division of the digits k to Len(a) of a by m: [q |-> the digits of
\* the quotient, r |-> the remainder].
BigDivided(a, m, k) ==
    IF k > Len(a) THEN [q |-> <<>>, r |-> 0]
    ELSE BigDigit(a, m, k, BigDivided(a, m, k + 1))

\* a // m.
BigQuotient(a, m) == BigTrimmed(BigDivided(a, m, 1).q)

\* a % m.
BigRemainder(a, m) == BigDivided(a, m, 1).r

\* decode_generalized_number has read the digit digit, t being T(j, bias):
\* a digit below t ends the number.
DigitRead(at, digit, t) ==
    IF digit < t
    THEN [at EXCEPT !.done = TRUE, !.pos = at.pos + 1,
                    !.delta = BigSum(at.delta, BigTimes(at.w, digit), 0)]
    ELSE [at EXCEPT !.pos = at.pos + 1,
                    !.delta = BigSum(at.delta, BigTimes(at.w, digit), 0),
                    !.w = BigTimes(at.w, 36 - t), !.j = at.j + 1]

\* One round of the loop of decode_generalized_number: result (delta), w and
\* j as the code keeps them, pos counted from 1.  Where the text ends inside
\* the number or holds a character that is no digit there is none.
NumberOnce(extended, bias, at) ==
    IF at.pos > Len(extended) \/ PunycodeDigit(extended[at.pos]) < 0
    THEN [at EXCEPT !.done = TRUE, !.none = TRUE, !.pos = at.pos + 1]
    ELSE DigitRead(at, PunycodeDigit(extended[at.pos]), PunycodeT(at.j, bias))

RECURSIVE NumberRounds(_, _, _, _)
\* n rounds of the loop from the state at, or those up to its end.
NumberRounds(extended, bias, at, n) ==
    IF at.done THEN at
    ELSE IF n <= 1 THEN NumberOnce(extended, bias, at)
    ELSE NumberRounds(extended, bias, NumberRounds(extended, bias, at, n \div 2),
                      n - (n \div 2))

\* The number that starts at extpos: pos is where the next one starts, delta
\* the number, and none says that there is none (None).
decode_generalized_number(extended, extpos, bias) ==
    NumberRounds(extended, bias,
                 [done |-> FALSE, none |-> FALSE, pos |-> extpos, delta |-> <<>>, w |-> <<1>>,
                  j |-> 0],
                 Len(extended) + 1)

RECURSIVE AdaptDivisions(_, _)
\* The loop of adapt and its result.
AdaptDivisions(delta, divisions) ==
    IF Len(delta) > 2 \/ BigValue(delta) > 455
    THEN AdaptDivisions(BigQuotient(delta, 35), divisions + 36)
    ELSE divisions + ((36 * BigValue(delta)) \div (BigValue(delta) + 38))

AdaptScaled(delta, numchars) ==
    AdaptDivisions(BigSum(delta, BigQuotient(delta, numchars), 0), 0)

\* adapt for the number delta.
adapt(delta, first, numchars) ==
    AdaptScaled(BigQuotient(delta, IF first THEN 700 ELSE 2), numchars)

\* base with the character char put in at index pos (counted from 0).
InsertedAt(base, pos, char) ==
    SubSeq(base, 1, pos) \o <<char>> \o SubSeq(base, pos + 1, Len(base))

\* insertion_sort has ended at the state at, exc being what it raises.
InsertEnded(at, exc) == [at EXCEPT !.done = TRUE, !.exc = exc]

\* The state after the character char has gone in at pos.
InsertedChar(at, g, char, pos) ==
    [done |-> FALSE, exc |-> "none", base |-> InsertedAt(at.base, pos, char), char |-> char,
     pos |-> pos, bias |-> adapt(g.delta, at.extpos = 1, Len(at.base) + 1), extpos |-> g.pos]

\* The character goes in at pos, having moved on by moved: one past
\* U+10FFFF raises under errors = "strict" and is a question mark otherwise.
InsertChar(errors, at, g, moved, pos) ==
    IF Len(moved) > 2 \/ at.char + BigValue(moved) > 1114111
    THEN IF errors = "strict" THEN InsertEnded(at, "UnicodeError")
         ELSE InsertedChar(at, g, 63, pos)
    ELSE InsertedChar(at, g, at.char + BigValue(moved), pos)

\* pos += delta + 1, char += pos // (len(base) + 1) and
\* pos = pos % (len(base) + 1) for the sum pos.
InsertAt(errors, at, g, pos) ==
    InsertChar(errors, at, g, BigQuotient(pos, Len(at.base) + 1),
               BigRemainder(pos, Len(at.base) + 1))

\* One round, the number read being g: under errors = "strict" a number that
\* cannot be read raises UnicodeError, otherwise the text so far is returned.
InsertNext(errors, at, g) ==
    IF g.none THEN InsertEnded(at, IF errors = "strict" THEN "UnicodeError" ELSE "none")
    ELSE InsertAt(errors, at, g, BigScaled(g.delta, 1, at.pos + 1))

\* One round of the loop of insertion_sort: base, char, pos and bias as the
\* code keeps them, extpos counted from 1.
InsertOnce(extended, errors, at) ==
    IF at.extpos > Len(extended) THEN InsertEnded(at, "none")
    ELSE InsertNext(errors, at, decode_generalized_number(extended, at.extpos, at.bias))

RECURSIVE InsertRounds(_, _, _, _)
\* n rounds of the loop from the state at, or those up to its end.
InsertRounds(extended, errors, at, n) ==
    IF at.done THEN at
    ELSE IF n <= 1 THEN InsertOnce(extended, errors, at)
    ELSE InsertRounds(extended, errors, InsertRounds(extended, errors, at, n \div 2),
                      n - (n \div 2))

\* What insertion_sort returns or raises at its end.
InsertResult(at) ==
    IF at.exc /= "none" THEN UnicodeError ELSE [exc |-> "none", text |-> at.base]

\* insertion_sort: every round takes a character of extended at least, and
\* one more finds the end.
insertion_sort(base, extended, errors) ==
    InsertResult(InsertRounds(extended, errors,
                              [done |-> FALSE, exc |-> "none", base |-> base, char |-> 128,
                               pos |-> -1, bias |-> 72, extpos |-> 1],
                              Len(extended) + 1))

\* punycode_decode for the basic part base_d and the extended part as decoded
\* by the ASCII codec.
PunycodeOf(base_d, extended_d, errors) ==
    IF base_d.exc /= "none" THEN base_d
    ELSE IF extended_d.exc /= "none" THEN extended_d
    ELSE insertion_sort(base_d.text, AsciiUpper(extended_d.text), errors)

\* punycode_decode: the part before the last hyphen is the basic text (read
\* with the error handler), the part after it the extended one (read strictly).
PunycodeAt(text, pos, errors) ==
    PunycodeOf(IF pos = 0 THEN [exc |-> "none", text |-> <<>>]
               ELSE AsciiDecode(SubSeq(text, 1, pos - 1), errors),
               AsciiDecode(SubSeq(text, pos + 1, Len(text)), "strict"), errors)

punycode_decode(text, errors) == PunycodeAt(text, LastIndex(text, Minus), errors)

(***************************************************************************)
(* stringprep and unicodedata.ucd_3_2_0, as encodings.idna.nameprep uses   *)
(* them.  The tables are those of CPython 3.11.                            *)
(***************************************************************************)
\* stringprep.in_table_b1, the characters that are mapped to nothing: the ranges
\* <<first, last>> of their code points.
TableB1 ==
    <<<<173, 173>>, <<847, 847>>, <<6150, 6150>>, <<6155, 6157>>, <<8203, 8205>>, <<8288, 8288>>,
      <<65024, 65039>>, <<65279, 65279>>>>

\* stringprep.map_table_b2, case folding with normalization: <<code point, what
\* it is mapped to>> for every character the mapping changes, by code point.
TableB2 ==
    <<<<65, <<97>>>>, <<66, <<98>>>>, <<67, <<99>>>>, <<68, <<100>>>>, <<69, <<101>>>>,
      <<70, <<102>>>>, <<71, <<103>>>>, <<72, <<104>>>>, <<73, <<105>>>>, <<74, <<106>>>>,
      <<75, <<107>>>>, <<76, <<108>>>>, <<77, <<109>>>>, <<78, <<110>>>>, <<79, <<111>>>>,
      <<80, <<112>>>>, <<81, <<113>>>>, <<82, <<114>>>>, <<83, <<115>>>>, <<84, <<116>>>>,
      <<85, <<117>>>>, <<86, <<118>>>>, <<87, <<119>>>>, <<88, <<120>>>>, <<89, <<121>>>>,
      <<90, <<122>>>>, <<181, <<956>>>>, <<192, <<224>>>>, <<193, <<225>>>>, <<194, <<226>>>>,
      <<195, <<227>>>>, <<196, <<228>>>>, <<197, <<229>>>>, <<198, <<230>>>>, <<199, <<231>>>>,
      <<200, <<232>>>>, <<201, <<233>>>>, <<202, <<234>>>>, <<203, <<235>>>>, <<204, <<236>>>>,
      <<205, <<237>>>>, <<206, <<238>>>>, <<207, <<239>>>>, <<208, <<240>>>>, <<209, <<241>>>>,
      <<210, <<242>>>>, <<211, <<243>>>>, <<212, <<244>>>>, <<213, <<245>>>>, <<214, <<246>>>>,
      <<216, <<248>>>>, <<217, <<249>>>>, <<218, <<250>>>>, <<219, <<251>>>>, <<220, <<252>>>>,
      <<221, <<253>>>>, <<222, <<254>>>>, <<223, <<115, 115>>>>, <<256, <<257>>>>, <<258, <<259>>>>,
      <<260, <<261>>>>, <<262, <<263>>>>, <<264, <<265>>>>, <<266, <<267>>>>, <<268, <<269>>>>,
      <<270, <<271>>>>, <<272, <<273>>>>, <<274, <<275>>>>, <<276, <<277>>>>, <<278, <<279>>>>,
      <<280, <<281>>>>, <<282, <<283>>>>, <<284, <<285>>>>, <<286, <<287>>>>, <<288, <<289>>>>,
      <<290, <<291>>>>, <<292, <<293>>>>, <<294, <<295>>>>, <<296, <<297>>>>, <<298, <<299>>>>,
      <<300, <<301>>>>, <<302, <<303>>>>, <<304, <<105, 775>>>>, <<306, <<307>>>>, <<308, <<309>>>>,
      <<310, <<311>>>>, <<313, <<314>>>>, <<315, <<316>>>>, <<317, <<318>>>>, <<319, <<320>>>>,
      <<321, <<322>>>>, <<323, <<324>>>>, <<325, <<326>>>>, <<327, <<328>>>>, <<329, <<700, 110>>>>,
      <<330, <<331>>>>, <<332, <<333>>>>, <<334, <<335>>>>, <<336, <<337>>>>, <<338, <<339>>>>,
      <<340, <<341>>>>, <<342, <<343>>>>, <<344, <<345>>>>, <<346, <<347>>>>, <<348, <<349>>>>,
      <<350, <<351>>>>, <<352, <<353>>>>, <<354, <<355>>>>, <<356, <<357>>>>, <<358, <<359>>>>,
      <<360, <<361>>>>, <<362, <<363>>>>, <<364, <<365>>>>, <<366, <<367>>>>, <<368, <<369>>>>,
      <<370, <<371>>>>, <<372, <<373>>>>, <<374, <<375>>>>, <<376, <<255>>>>, <<377, <<378>>>>,
      <<379, <<380>>>>, <<381, <<382>>>>, <<383, <<115>>>>, <<385, <<595>>>>, <<386, <<387>>>>,
      <<388, <<389>>>>, <<390, <<596>>>>, <<391, <<392>>>>, <<393, <<598>>>>, <<394, <<599>>>>,
      <<395, <<396>>>>, <<398, <<477>>>>, <<399, <<601>>>>, <<400, <<603>>>>, <<401, <<402>>>>,
      <<403, <<608>>>>, <<404, <<611>>>>, <<406, <<617>>>>, <<407, <<616>>>>, <<408, <<409>>>>,
      <<412, <<623>>>>, <<413, <<626>>>>, <<415, <<629>>>>, <<416, <<417>>>>, <<418, <<419>>>>,
      <<420, <<421>>>>, <<422, <<640>>>>, <<423, <<424>>>>, <<425, <<643>>>>, <<428, <<429>>>>,
      <<430, <<648>>>>, <<431, <<432>>>>, <<433, <<650>>>>, <<434, <<651>>>>, <<435, <<436>>>>,
      <<437, <<438>>>>, <<439, <<658>>>>, <<440, <<441>>>>, <<444, <<445>>>>, <<452, <<454>>>>,
      <<453, <<454>>>>, <<455, <<457>>>>, <<456, <<457>>>>, <<458, <<460>>>>, <<459, <<460>>>>,
      <<461, <<462>>>>, <<463, <<464>>>>, <<465, <<466>>>>, <<467, <<468>>>>, <<469, <<470>>>>,
      <<471, <<472>>>>, <<473, <<474>>>>, <<475, <<476>>>>, <<478, <<479>>>>, <<480, <<481>>>>,
      <<482, <<483>>>>, <<484, <<485>>>>, <<486, <<487>>>>, <<488, <<489>>>>, <<490, <<491>>>>,
      <<492, <<493>>>>, <<494, <<495>>>>, <<496, <<106, 780>>>>, <<497, <<499>>>>, <<498, <<499>>>>,
      <<500, <<501>>>>, <<502, <<405>>>>, <<503, <<447>>>>, <<504, <<505>>>>, <<506, <<507>>>>,
      <<508, <<509>>>>, <<510, <<511>>>>, <<512, <<513>>>>, <<514, <<515>>>>, <<516, <<517>>>>,
      <<518, <<519>>>>, <<520, <<521>>>>, <<522, <<523>>>>, <<524, <<525>>>>, <<526, <<527>>>>,
      <<528, <<529>>>>, <<530, <<531>>>>, <<532, <<533>>>>, <<534, <<535>>>>, <<536, <<537>>>>,
      <<538, <<539>>>>, <<540, <<541>>>>, <<542, <<543>>>>, <<544, <<414>>>>, <<546, <<547>>>>,
      <<548, <<549>>>>, <<550, <<551>>>>, <<552, <<553>>>>, <<554, <<555>>>>, <<556, <<557>>>>,
      <<558, <<559>>>>, <<560, <<561>>>>, <<562, <<563>>>>, <<570, <<11365>>>>, <<571, <<572>>>>,
      <<573, <<410>>>>, <<574, <<11366>>>>, <<577, <<578>>>>, <<579, <<384>>>>, <<580, <<649>>>>,
      <<581, <<652>>>>, <<582, <<583>>>>, <<584, <<585>>>>, <<586, <<587>>>>, <<588, <<589>>>>,
      <<590, <<591>>>>, <<837, <<953>>>>, <<880, <<881>>>>, <<882, <<883>>>>, <<886, <<887>>>>,
      <<890, <<32, 953>>>>, <<895, <<1011>>>>, <<902, <<940>>>>, <<904, <<941>>>>, <<905, <<942>>>>,
      <<906, <<943>>>>, <<908, <<972>>>>, <<910, <<973>>>>, <<911, <<974>>>>,
      <<912, <<953, 776, 769>>>>, <<913, <<945>>>>, <<914, <<946>>>>, <<915, <<947>>>>,
      <<916, <<948>>>>, <<917, <<949>>>>, <<918, <<950>>>>, <<919, <<951>>>>, <<920, <<952>>>>,
      <<921, <<953>>>>, <<922, <<954>>>>, <<923, <<955>>>>, <<924, <<956>>>>, <<925, <<957>>>>,
      <<926, <<958>>>>, <<927, <<959>>>>, <<928, <<960>>>>, <<929, <<961>>>>, <<931, <<963>>>>,
      <<932, <<964>>>>, <<933, <<965>>>>, <<934, <<966>>>>, <<935, <<967>>>>, <<936, <<968>>>>,
      <<937, <<969>>>>, <<938, <<970>>>>, <<939, <<971>>>>, <<944, <<965, 776, 769>>>>,
      <<962, <<963>>>>, <<975, <<983>>>>, <<976, <<946>>>>, <<977, <<952>>>>, <<978, <<965>>>>,
      <<979, <<973>>>>, <<980, <<971>>>>, <<981, <<966>>>>, <<982, <<960>>>>, <<984, <<985>>>>,
      <<986, <<987>>>>, <<988, <<989>>>>, <<990, <<991>>>>, <<992, <<993>>>>, <<994, <<995>>>>,
      <<996, <<997>>>>, <<998, <<999>>>>, <<1000, <<1001>>>>, <<1002, <<1003>>>>, <<1004, <<1005>>>>,
      <<1006, <<1007>>>>, <<1008, <<954>>>>, <<1009, <<961>>>>, <<1010, <<963>>>>, <<1012, <<952>>>>,
      <<1013, <<949>>>>, <<1015, <<1016>>>>, <<1017, <<963>>>>, <<1018, <<1019>>>>,
      <<1021, <<891>>>>, <<1022, <<892>>>>, <<1023, <<893>>>>, <<1024, <<1104>>>>,
      <<1025, <<1105>>>>, <<1026, <<1106>>>>, <<1027, <<1107>>>>, <<1028, <<1108>>>>,
      <<1029, <<1109>>>>, <<1030, <<1110>>>>, <<1031, <<1111>>>>, <<1032, <<1112>>>>,
      <<1033, <<1113>>>>, <<1034, <<1114>>>>, <<1035, <<1115>>>>, <<1036, <<1116>>>>,
      <<1037, <<1117>>>>, <<1038, <<1118>>>>, <<1039, <<1119>>>>, <<1040, <<1072>>>>,
      <<1041, <<1073>>>>, <<1042, <<1074>>>>, <<1043, <<1075>>>>, <<1044, <<1076>>>>,
      <<1045, <<1077>>>>, <<1046, <<1078>>>>, <<1047, <<1079>>>>, <<1048, <<1080>>>>,
      <<1049, <<1081>>>>, <<1050, <<1082>>>>, <<1051, <<1083>>>>, <<1052, <<1084>>>>,
      <<1053, <<1085>>>>, <<1054, <<1086>>>>, <<1055, <<1087>>>>, <<1056, <<1088>>>>,
      <<1057, <<1089>>>>, <<1058, <<1090>>>>, <<1059, <<1091>>>>, <<1060, <<1092>>>>,
      <<1061, <<1093>>>>, <<1062, <<1094>>>>, <<1063, <<1095>>>>, <<1064, <<1096>>>>,
      <<1065, <<1097>>>>, <<1066, <<1098>>>>, <<1067, <<1099>>>>, <<1068, <<1100>>>>,
      <<1069, <<1101>>>>, <<1070, <<1102>>>>, <<1071, <<1103>>>>, <<1120, <<1121>>>>,
      <<1122, <<1123>>>>, <<1124, <<1125>>>>, <<1126, <<1127>>>>, <<1128, <<1129>>>>,
      <<1130, <<1131>>>>, <<1132, <<1133>>>>, <<1134, <<1135>>>>, <<1136, <<1137>>>>,
      <<1138, <<1139>>>>, <<1140, <<1141>>>>, <<1142, <<1143>>>>, <<1144, <<1145>>>>,
      <<1146, <<1147>>>>, <<1148, <<1149>>>>, <<1150, <<1151>>>>, <<1152, <<1153>>>>,
      <<1162, <<1163>>>>, <<1164, <<1165>>>>, <<1166, <<1167>>>>, <<1168, <<1169>>>>,
      <<1170, <<1171>>>>, <<1172, <<1173>>>>, <<1174, <<1175>>>>, <<1176, <<1177>>>>,
      <<1178, <<1179>>>>, <<1180, <<1181>>>>, <<1182, <<1183>>>>, <<1184, <<1185>>>>,
      <<1186, <<1187>>>>, <<1188, <<1189>>>>, <<1190, <<1191>>>>, <<1192, <<1193>>>>,
      <<1194, <<1195>>>>, <<1196, <<1197>>>>, <<1198, <<1199>>>>, <<1200, <<1201>>>>,
      <<1202, <<1203>>>>, <<1204, <<1205>>>>, <<1206, <<1207>>>>, <<1208, <<1209>>>>,
      <<1210, <<1211>>>>, <<1212, <<1213>>>>, <<1214, <<1215>>>>, <<1216, <<1231>>>>,
      <<1217, <<1218>>>>, <<1219, <<1220>>>>, <<1221, <<1222>>>>, <<1223, <<1224>>>>,
      <<1225, <<1226>>>>, <<1227, <<1228>>>>, <<1229, <<1230>>>>, <<1232, <<1233>>>>,
      <<1234, <<1235>>>>, <<1236, <<1237>>>>, <<1238, <<1239>>>>, <<1240, <<1241>>>>,
      <<1242, <<1243>>>>, <<1244, <<1245>>>>, <<1246, <<1247>>>>, <<1248, <<1249>>>>,
      <<1250, <<1251>>>>, <<1252, <<1253>>>>, <<1254, <<1255>>>>, <<1256, <<1257>>>>,
      <<1258, <<1259>>>>, <<1260, <<1261>>>>, <<1262, <<1263>>>>, <<1264, <<1265>>>>,
      <<1266, <<1267>>>>, <<1268, <<1269>>>>, <<1270, <<1271>>>>, <<1272, <<1273>>>>,
      <<1274, <<1275>>>>, <<1276, <<1277>>>>, <<1278, <<1279>>>>, <<1280, <<1281>>>>,
      <<1282, <<1283>>>>, <<1284, <<1285>>>>, <<1286, <<1287>>>>, <<1288, <<1289>>>>,
      <<1290, <<1291>>>>, <<1292, <<1293>>>>, <<1294, <<1295>>>>, <<1296, <<1297>>>>,
      <<1298, <<1299>>>>, <<1300, <<1301>>>>, <<1302, <<1303>>>>, <<1304, <<1305>>>>,
      <<1306, <<1307>>>>, <<1308, <<1309>>>>, <<1310, <<1311>>>>, <<1312, <<1313>>>>,
      <<1314, <<1315>>>>, <<1316, <<1317>>>>, <<1318, <<1319>>>>, <<1320, <<1321>>>>,
      <<1322, <<1323>>>>, <<1324, <<1325>>>>, <<1326, <<1327>>>>, <<1329, <<1377>>>>,
      <<1330, <<1378>>>>, <<1331, <<1379>>>>, <<1332, <<1380>>>>, <<1333, <<1381>>>>,
      <<1334, <<1382>>>>, <<1335, <<1383>>>>, <<1336, <<1384>>>>, <<1337, <<1385>>>>,
      <<1338, <<1386>>>>, <<1339, <<1387>>>>, <<1340, <<1388>>>>, <<1341, <<1389>>>>,
      <<1342, <<1390>>>>, <<1343, <<1391>>>>, <<1344, <<1392>>>>, <<1345, <<1393>>>>,
      <<1346, <<1394>>>>, <<1347, <<1395>>>>, <<1348, <<1396>>>>, <<1349, <<1397>>>>,
      <<1350, <<1398>>>>, <<1351, <<1399>>>>, <<1352, <<1400>>>>, <<1353, <<1401>>>>,
      <<1354, <<1402>>>>, <<1355, <<1403>>>>, <<1356, <<1404>>>>, <<1357, <<1405>>>>,
      <<1358, <<1406>>>>, <<1359, <<1407>>>>, <<1360, <<1408>>>>, <<1361, <<1409>>>>,
      <<1362, <<1410>>>>, <<1363, <<1411>>>>, <<1364, <<1412>>>>, <<1365, <<1413>>>>,
      <<1366, <<1414>>>>, <<1415, <<1381, 1410>>>>, <<4256, <<11520>>>>, <<4257, <<11521>>>>,
      <<4258, <<11522>>>>, <<4259, <<11523>>>>, <<4260, <<11524>>>>, <<4261, <<11525>>>>,
      <<4262, <<11526>>>>, <<4263, <<11527>>>>, <<4264, <<11528>>>>, <<4265, <<11529>>>>,
      <<4266, <<11530>>>>, <<4267, <<11531>>>>, <<4268, <<11532>>>>, <<4269, <<11533>>>>,
      <<4270, <<11534>>>>, <<4271, <<11535>>>>, <<4272, <<11536>>>>, <<4273, <<11537>>>>,
      <<4274, <<11538>>>>, <<4275, <<11539>>>>, <<4276, <<11540>>>>, <<4277, <<11541>>>>,
      <<4278, <<11542>>>>, <<4279, <<11543>>>>, <<4280, <<11544>>>>, <<4281, <<11545>>>>,
      <<4282, <<11546>>>>, <<4283, <<11547>>>>, <<4284, <<11548>>>>, <<4285, <<11549>>>>,
      <<4286, <<11550>>>>, <<4287, <<11551>>>>, <<4288, <<11552>>>>, <<4289, <<11553>>>>,
      <<4290, <<11554>>>>, <<4291, <<11555>>>>, <<4292, <<11556>>>>, <<4293, <<11557>>>>,
      <<4295, <<11559>>>>, <<4301, <<11565>>>>, <<5024, <<43888>>>>, <<5025, <<43889>>>>,
      <<5026, <<43890>>>>, <<5027, <<43891>>>>, <<5028, <<43892>>>>, <<5029, <<43893>>>>,
      <<5030, <<43894>>>>, <<5031, <<43895>>>>, <<5032, <<43896>>>>, <<5033, <<43897>>>>,
      <<5034, <<43898>>>>, <<5035, <<43899>>>>, <<5036, <<43900>>>>, <<5037, <<43901>>>>,
      <<5038, <<43902>>>>, <<5039, <<43903>>>>, <<5040, <<43904>>>>, <<5041, <<43905>>>>,
      <<5042, <<43906>>>>, <<5043, <<43907>>>>, <<5044, <<43908>>>>, <<5045, <<43909>>>>,
      <<5046, <<43910>>>>, <<5047, <<43911>>>>, <<5048, <<43912>>>>, <<5049, <<43913>>>>,
      <<5050, <<43914>>>>, <<5051, <<43915>>>>, <<5052, <<43916>>>>, <<5053, <<43917>>>>,
      <<5054, <<43918>>>>, <<5055, <<43919>>>>, <<5056, <<43920>>>>, <<5057, <<43921>>>>,
      <<5058, <<43922>>>>, <<5059, <<43923>>>>, <<5060, <<43924>>>>, <<5061, <<43925>>>>,
      <<5062, <<43926>>>>, <<5063, <<43927>>>>, <<5064, <<43928>>>>, <<5065, <<43929>>>>,
      <<5066, <<43930>>>>, <<5067, <<43931>>>>, <<5068, <<43932>>>>, <<5069, <<43933>>>>,
      <<5070, <<43934>>>>, <<5071, <<43935>>>>, <<5072, <<43936>>>>, <<5073, <<43937>>>>,
      <<5074, <<43938>>>>, <<5075, <<43939>>>>, <<5076, <<43940>>>>, <<5077, <<43941>>>>,
      <<5078, <<43942>>>>, <<5079, <<43943>>>>, <<5080, <<43944>>>>, <<5081, <<43945>>>>,
      <<5082, <<43946>>>>, <<5083, <<43947>>>>, <<5084, <<43948>>>>, <<5085, <<43949>>>>,
      <<5086, <<43950>>>>, <<5087, <<43951>>>>, <<5088, <<43952>>>>, <<5089, <<43953>>>>,
      <<5090, <<43954>>>>, <<5091, <<43955>>>>, <<5092, <<43956>>>>, <<5093, <<43957>>>>,
      <<5094, <<43958>>>>, <<5095, <<43959>>>>, <<5096, <<43960>>>>, <<5097, <<43961>>>>,
      <<5098, <<43962>>>>, <<5099, <<43963>>>>, <<5100, <<43964>>>>, <<5101, <<43965>>>>,
      <<5102, <<43966>>>>, <<5103, <<43967>>>>, <<5104, <<5112>>>>, <<5105, <<5113>>>>,
      <<5106, <<5114>>>>, <<5107, <<5115>>>>, <<5108, <<5116>>>>, <<5109, <<5117>>>>,
      <<7312, <<4304>>>>, <<7313, <<4305>>>>, <<7314, <<4306>>>>, <<7315, <<4307>>>>,
      <<7316, <<4308>>>>, <<7317, <<4309>>>>, <<7318, <<4310>>>>, <<7319, <<4311>>>>,
      <<7320, <<4312>>>>, <<7321, <<4313>>>>, <<7322, <<4314>>>>, <<7323, <<4315>>>>,
      <<7324, <<4316>>>>, <<7325, <<4317>>>>, <<7326, <<4318>>>>, <<7327, <<4319>>>>,
      <<7328, <<4320>>>>, <<7329, <<4321>>>>, <<7330, <<4322>>>>, <<7331, <<4323>>>>,
      <<7332, <<4324>>>>, <<7333, <<4325>>>>, <<7334, <<4326>>>>, <<7335, <<4327>>>>,
      <<7336, <<4328>>>>, <<7337, <<4329>>>>, <<7338, <<4330>>>>, <<7339, <<4331>>>>,
      <<7340, <<4332>>>>, <<7341, <<4333>>>>, <<7342, <<4334>>>>, <<7343, <<4335>>>>,
      <<7344, <<4336>>>>, <<7345, <<4337>>>>, <<7346, <<4338>>>>, <<7347, <<4339>>>>,
      <<7348, <<4340>>>>, <<7349, <<4341>>>>, <<7350, <<4342>>>>, <<7351, <<4343>>>>,
      <<7352, <<4344>>>>, <<7353, <<4345>>>>, <<7354, <<4346>>>>, <<7357, <<4349>>>>,
      <<7358, <<4350>>>>, <<7359, <<4351>>>>, <<7680, <<7681>>>>, <<7682, <<7683>>>>,
      <<7684, <<7685>>>>, <<7686, <<7687>>>>, <<7688, <<7689>>>>, <<7690, <<7691>>>>,
      <<7692, <<7693>>>>, <<7694, <<7695>>>>, <<7696, <<7697>>>>, <<7698, <<7699>>>>,
      <<7700, <<7701>>>>, <<7702, <<7703>>>>, <<7704, <<7705>>>>, <<7706, <<7707>>>>,
      <<7708, <<7709>>>>, <<7710, <<7711>>>>, <<7712, <<7713>>>>, <<7714, <<7715>>>>,
      <<7716, <<7717>>>>, <<7718, <<7719>>>>, <<7720, <<7721>>>>, <<7722, <<7723>>>>,
      <<7724, <<7725>>>>, <<7726, <<7727>>>>, <<7728, <<7729>>>>, <<7730, <<7731>>>>,
      <<7732, <<7733>>>>, <<7734, <<7735>>>>, <<7736, <<7737>>>>, <<7738, <<7739>>>>,
      <<7740, <<7741>>>>, <<7742, <<7743>>>>, <<7744, <<7745>>>>, <<7746, <<7747>>>>,
      <<7748, <<7749>>>>, <<7750, <<7751>>>>, <<7752, <<7753>>>>, <<7754, <<7755>>>>,
      <<7756, <<7757>>>>, <<7758, <<7759>>>>, <<7760, <<7761>>>>, <<7762, <<7763>>>>,
      <<7764, <<7765>>>>, <<7766, <<7767>>>>, <<7768, <<7769>>>>, <<7770, <<7771>>>>,
      <<7772, <<7773>>>>, <<7774, <<7775>>>>, <<7776, <<7777>>>>, <<7778, <<7779>>>>,
      <<7780, <<7781>>>>, <<7782, <<7783>>>>, <<7784, <<7785>>>>, <<7786, <<7787>>>>,
      <<7788, <<7789>>>>, <<7790, <<7791>>>>, <<7792, <<7793>>>>, <<7794, <<7795>>>>,
      <<7796, <<7797>>>>, <<7798, <<7799>>>>, <<7800, <<7801>>>>, <<7802, <<7803>>>>,
      <<7804, <<7805>>>>, <<7806, <<7807>>>>, <<7808, <<7809>>>>, <<7810, <<7811>>>>,
      <<7812, <<7813>>>>, <<7814, <<7815>>>>, <<7816, <<7817>>>>, <<7818, <<7819>>>>,
      <<7820, <<7821>>>>, <<7822, <<7823>>>>, <<7824, <<7825>>>>, <<7826, <<7827>>>>,
      <<7828, <<7829>>>>, <<7830, <<104, 817>>>>, <<7831, <<116, 776>>>>, <<7832, <<119, 778>>>>,
      <<7833, <<121, 778>>>>, <<7834, <<97, 702>>>>, <<7835, <<7777>>>>, <<7838, <<115, 115>>>>,
      <<7840, <<7841>>>>, <<7842, <<7843>>>>, <<7844, <<7845>>>>, <<7846, <<7847>>>>,
      <<7848, <<7849>>>>, <<7850, <<7851>>>>, <<7852, <<7853>>>>, <<7854, <<7855>>>>,
      <<7856, <<7857>>>>, <<7858, <<7859>>>>, <<7860, <<7861>>>>, <<7862, <<7863>>>>,
      <<7864, <<7865>>>>, <<7866, <<7867>>>>, <<7868, <<7869>>>>, <<7870, <<7871>>>>,
      <<7872, <<7873>>>>, <<7874, <<7875>>>>, <<7876, <<7877>>>>, <<7878, <<7879>>>>,
      <<7880, <<7881>>>>, <<7882, <<7883>>>>, <<7884, <<7885>>>>, <<7886, <<7887>>>>,
      <<7888, <<7889>>>>, <<7890, <<7891>>>>, <<7892, <<7893>>>>, <<7894, <<7895>>>>,
      <<7896, <<7897>>>>, <<7898, <<7899>>>>, <<7900, <<7901>>>>, <<7902, <<7903>>>>,
      <<7904, <<7905>>>>, <<7906, <<7907>>>>, <<7908, <<7909>>>>, <<7910, <<7911>>>>,
      <<7912, <<7913>>>>, <<7914, <<7915>>>>, <<7916, <<7917>>>>, <<7918, <<7919>>>>,
      <<7920, <<7921>>>>, <<7922, <<7923>>>>, <<7924, <<7925>>>>, <<7926, <<7927>>>>,
      <<7928, <<7929>>>>, <<7930, <<7931>>>>, <<7932, <<7933>>>>, <<7934, <<7935>>>>,
      <<7944, <<7936>>>>, <<7945, <<7937>>>>, <<7946, <<7938>>>>, <<7947, <<7939>>>>,
      <<7948, <<7940>>>>, <<7949, <<7941>>>>, <<7950, <<7942>>>>, <<7951, <<7943>>>>,
      <<7960, <<7952>>>>, <<7961, <<7953>>>>, <<7962, <<7954>>>>, <<7963, <<7955>>>>,
      <<7964, <<7956>>>>, <<7965, <<7957>>>>, <<7976, <<7968>>>>, <<7977, <<7969>>>>,
      <<7978, <<7970>>>>, <<7979, <<7971>>>>, <<7980, <<7972>>>>, <<7981, <<7973>>>>,
      <<7982, <<7974>>>>, <<7983, <<7975>>>>, <<7992, <<7984>>>>, <<7993, <<7985>>>>,
      <<7994, <<7986>>>>, <<7995, <<7987>>>>, <<7996, <<7988>>>>, <<7997, <<7989>>>>,
      <<7998, <<7990>>>>, <<7999, <<7991>>>>, <<8008, <<8000>>>>, <<8009, <<8001>>>>,
      <<8010, <<8002>>>>, <<8011, <<8003>>>>, <<8012, <<8004>>>>, <<8013, <<8005>>>>,
      <<8016, <<965, 787>>>>, <<8018, <<965, 787, 768>>>>, <<8020, <<965, 787, 769>>>>,
      <<8022, <<965, 787, 834>>>>, <<8025, <<8017>>>>, <<8027, <<8019>>>>, <<8029, <<8021>>>>,
      <<8031, <<8023>>>>, <<8040, <<8032>>>>, <<8041, <<8033>>>>, <<8042, <<8034>>>>,
      <<8043, <<8035>>>>, <<8044, <<8036>>>>, <<8045, <<8037>>>>, <<8046, <<8038>>>>,
      <<8047, <<8039>>>>, <<8064, <<7936, 953>>>>, <<8065, <<7937, 953>>>>, <<8066, <<7938, 953>>>>,
      <<8067, <<7939, 953>>>>, <<8068, <<7940, 953>>>>, <<8069, <<7941, 953>>>>,
      <<8070, <<7942, 953>>>>, <<8071, <<7943, 953>>>>, <<8072, <<7936, 953>>>>,
      <<8073, <<7937, 953>>>>, <<8074, <<7938, 953>>>>, <<8075, <<7939, 953>>>>,
      <<8076, <<7940, 953>>>>, <<8077, <<7941, 953>>>>, <<8078, <<7942, 953>>>>,
      <<8079, <<7943, 953>>>>, <<8080, <<7968, 953>>>>, <<8081, <<7969, 953>>>>,
      <<8082, <<7970, 953>>>>, <<8083, <<7971, 953>>>>, <<8084, <<7972, 953>>>>,
      <<8085, <<7973, 953>>>>, <<8086, <<7974, 953>>>>, <<8087, <<7975, 953>>>>,
      <<8088, <<7968, 953>>>>, <<8089, <<7969, 953>>>>, <<8090, <<7970, 953>>>>,
      <<8091, <<7971, 953>>>>, <<8092, <<7972, 953>>>>, <<8093, <<7973, 953>>>>,
      <<8094, <<7974, 953>>>>, <<8095, <<7975, 953>>>>, <<8096, <<8032, 953>>>>,
      <<8097, <<8033, 953>>>>, <<8098, <<8034, 953>>>>, <<8099, <<8035, 953>>>>,
      <<8100, <<8036, 953>>>>, <<8101, <<8037, 953>>>>, <<8102, <<8038, 953>>>>,
      <<8103, <<8039, 953>>>>, <<8104, <<8032, 953>>>>, <<8105, <<8033, 953>>>>,
      <<8106, <<8034, 953>>>>, <<8107, <<8035, 953>>>>, <<8108, <<8036, 953>>>>,
      <<8109, <<8037, 953>>>>, <<8110, <<8038, 953>>>>, <<8111, <<8039, 953>>>>,
      <<8114, <<8048, 953>>>>, <<8115, <<945, 953>>>>, <<8116, <<940, 953>>>>,
      <<8118, <<945, 834>>>>, <<8119, <<945, 834, 953>>>>, <<8120, <<8112>>>>, <<8121, <<8113>>>>,
      <<8122, <<8048>>>>, <<8123, <<8049>>>>, <<8124, <<945, 953>>>>, <<8126, <<953>>>>,
      <<8130, <<8052, 953>>>>, <<8131, <<951, 953>>>>, <<8132, <<942, 953>>>>,
      <<8134, <<951, 834>>>>, <<8135, <<951, 834, 953>>>>, <<8136, <<8050>>>>, <<8137, <<8051>>>>,
      <<8138, <<8052>>>>, <<8139, <<8053>>>>, <<8140, <<951, 953>>>>, <<8146, <<953, 776, 768>>>>,
      <<8147, <<953, 776, 769>>>>, <<8150, <<953, 834>>>>, <<8151, <<953, 776, 834>>>>,
      <<8152, <<8144>>>>, <<8153, <<8145>>>>, <<8154, <<8054>>>>, <<8155, <<8055>>>>,
      <<8162, <<965, 776, 768>>>>, <<8163, <<965, 776, 769>>>>, <<8164, <<961, 787>>>>,
      <<8166, <<965, 834>>>>, <<8167, <<965, 776, 834>>>>, <<8168, <<8160>>>>, <<8169, <<8161>>>>,
      <<8170, <<8058>>>>, <<8171, <<8059>>>>, <<8172, <<8165>>>>, <<8178, <<8060, 953>>>>,
      <<8179, <<969, 953>>>>, <<8180, <<974, 953>>>>, <<8182, <<969, 834>>>>,
      <<8183, <<969, 834, 953>>>>, <<8184, <<8056>>>>, <<8185, <<8057>>>>, <<8186, <<8060>>>>,
      <<8187, <<8061>>>>, <<8188, <<969, 953>>>>, <<8360, <<114, 115>>>>, <<8450, <<99>>>>,
      <<8451, <<176, 99>>>>, <<8455, <<603>>>>, <<8457, <<176, 102>>>>, <<8459, <<104>>>>,
      <<8460, <<104>>>>, <<8461, <<104>>>>, <<8464, <<105>>>>, <<8465, <<105>>>>, <<8466, <<108>>>>,
      <<8469, <<110>>>>, <<8470, <<110, 111>>>>, <<8473, <<112>>>>, <<8474, <<113>>>>,
      <<8475, <<114>>>>, <<8476, <<114>>>>, <<8477, <<114>>>>, <<8480, <<115, 109>>>>,
      <<8481, <<116, 101, 108>>>>, <<8482, <<116, 109>>>>, <<8484, <<122>>>>, <<8486, <<969>>>>,
      <<8488, <<122>>>>, <<8490, <<107>>>>, <<8491, <<229>>>>, <<8492, <<98>>>>, <<8493, <<99>>>>,
      <<8496, <<101>>>>, <<8497, <<102>>>>, <<8498, <<8526>>>>, <<8499, <<109>>>>, <<8510, <<947>>>>,
      <<8511, <<960>>>>, <<8517, <<100>>>>, <<8544, <<8560>>>>, <<8545, <<8561>>>>,
      <<8546, <<8562>>>>, <<8547, <<8563>>>>, <<8548, <<8564>>>>, <<8549, <<8565>>>>,
      <<8550, <<8566>>>>, <<8551, <<8567>>>>, <<8552, <<8568>>>>, <<8553, <<8569>>>>,
      <<8554, <<8570>>>>, <<8555, <<8571>>>>, <<8556, <<8572>>>>, <<8557, <<8573>>>>,
      <<8558, <<8574>>>>, <<8559, <<8575>>>>, <<8579, <<8580>>>>, <<9398, <<9424>>>>,
      <<9399, <<9425>>>>, <<9400, <<9426>>>>, <<9401, <<9427>>>>, <<9402, <<9428>>>>,
      <<9403, <<9429>>>>, <<9404, <<9430>>>>, <<9405, <<9431>>>>, <<9406, <<9432>>>>,
      <<9407, <<9433>>>>, <<9408, <<9434>>>>, <<9409, <<9435>>>>, <<9410, <<9436>>>>,
      <<9411, <<9437>>>>, <<9412, <<9438>>>>, <<9413, <<9439>>>>, <<9414, <<9440>>>>,
      <<9415, <<9441>>>>, <<9416, <<9442>>>>, <<9417, <<9443>>>>, <<9418, <<9444>>>>,
      <<9419, <<9445>>>>, <<9420, <<9446>>>>, <<9421, <<9447>>>>, <<9422, <<9448>>>>,
      <<9423, <<9449>>>>, <<11264, <<11312>>>>, <<11265, <<11313>>>>, <<11266, <<11314>>>>,
      <<11267, <<11315>>>>, <<11268, <<11316>>>>, <<11269, <<11317>>>>, <<11270, <<11318>>>>,
      <<11271, <<11319>>>>, <<11272, <<11320>>>>, <<11273, <<11321>>>>, <<11274, <<11322>>>>,
      <<11275, <<11323>>>>, <<11276, <<11324>>>>, <<11277, <<11325>>>>, <<11278, <<11326>>>>,
      <<11279, <<11327>>>>, <<11280, <<11328>>>>, <<11281, <<11329>>>>, <<11282, <<11330>>>>,
      <<11283, <<11331>>>>, <<11284, <<11332>>>>, <<11285, <<11333>>>>, <<11286, <<11334>>>>,
      <<11287, <<11335>>>>, <<11288, <<11336>>>>, <<11289, <<11337>>>>, <<11290, <<11338>>>>,
      <<11291, <<11339>>>>, <<11292, <<11340>>>>, <<11293, <<11341>>>>, <<11294, <<11342>>>>,
      <<11295, <<11343>>>>, <<11296, <<11344>>>>, <<11297, <<11345>>>>, <<11298, <<11346>>>>,
      <<11299, <<11347>>>>, <<11300, <<11348>>>>, <<11301, <<11349>>>>, <<11302, <<11350>>>>,
      <<11303, <<11351>>>>, <<11304, <<11352>>>>, <<11305, <<11353>>>>, <<11306, <<11354>>>>,
      <<11307, <<11355>>>>, <<11308, <<11356>>>>, <<11309, <<11357>>>>, <<11310, <<11358>>>>,
      <<11311, <<11359>>>>, <<11360, <<11361>>>>, <<11362, <<619>>>>, <<11363, <<7549>>>>,
      <<11364, <<637>>>>, <<11367, <<11368>>>>, <<11369, <<11370>>>>, <<11371, <<11372>>>>,
      <<11373, <<593>>>>, <<11374, <<625>>>>, <<11375, <<592>>>>, <<11376, <<594>>>>,
      <<11378, <<11379>>>>, <<11381, <<11382>>>>, <<11390, <<575>>>>, <<11391, <<576>>>>,
      <<11392, <<11393>>>>, <<11394, <<11395>>>>, <<11396, <<11397>>>>, <<11398, <<11399>>>>,
      <<11400, <<11401>>>>, <<11402, <<11403>>>>, <<11404, <<11405>>>>, <<11406, <<11407>>>>,
      <<11408, <<11409>>>>, <<11410, <<11411>>>>, <<11412, <<11413>>>>, <<11414, <<11415>>>>,
      <<11416, <<11417>>>>, <<11418, <<11419>>>>, <<11420, <<11421>>>>, <<11422, <<11423>>>>,
      <<11424, <<11425>>>>, <<11426, <<11427>>>>, <<11428, <<11429>>>>, <<11430, <<11431>>>>,
      <<11432, <<11433>>>>, <<11434, <<11435>>>>, <<11436, <<11437>>>>, <<11438, <<11439>>>>,
      <<11440, <<11441>>>>, <<11442, <<11443>>>>, <<11444, <<11445>>>>, <<11446, <<11447>>>>,
      <<11448, <<11449>>>>, <<11450, <<11451>>>>, <<11452, <<11453>>>>, <<11454, <<11455>>>>,
      <<11456, <<11457>>>>, <<11458, <<11459>>>>, <<11460, <<11461>>>>, <<11462, <<11463>>>>,
      <<11464, <<11465>>>>, <<11466, <<11467>>>>, <<11468, <<11469>>>>, <<11470, <<11471>>>>,
      <<11472, <<11473>>>>, <<11474, <<11475>>>>, <<11476, <<11477>>>>, <<11478, <<11479>>>>,
      <<11480, <<11481>>>>, <<11482, <<11483>>>>, <<11484, <<11485>>>>, <<11486, <<11487>>>>,
      <<11488, <<11489>>>>, <<11490, <<11491>>>>, <<11499, <<11500>>>>, <<11501, <<11502>>>>,
      <<11506, <<11507>>>>, <<13169, <<104, 112, 97>>>>, <<13171, <<97, 117>>>>,
      <<13173, <<111, 118>>>>, <<13184, <<112, 97>>>>, <<13185, <<110, 97>>>>,
      <<13186, <<956, 97>>>>, <<13187, <<109, 97>>>>, <<13188, <<107, 97>>>>, <<13189, <<107, 98>>>>,
      <<13190, <<109, 98>>>>, <<13191, <<103, 98>>>>, <<13194, <<112, 102>>>>,
      <<13195, <<110, 102>>>>, <<13196, <<956, 102>>>>, <<13200, <<104, 122>>>>,
      <<13201, <<107, 104, 122>>>>, <<13202, <<109, 104, 122>>>>, <<13203, <<103, 104, 122>>>>,
      <<13204, <<116, 104, 122>>>>, <<13225, <<112, 97>>>>, <<13226, <<107, 112, 97>>>>,
      <<13227, <<109, 112, 97>>>>, <<13228, <<103, 112, 97>>>>, <<13236, <<112, 118>>>>,
      <<13237, <<110, 118>>>>, <<13238, <<956, 118>>>>, <<13239, <<109, 118>>>>,
      <<13240, <<107, 118>>>>, <<13241, <<109, 118>>>>, <<13242, <<112, 119>>>>,
      <<13243, <<110, 119>>>>, <<13244, <<956, 119>>>>, <<13245, <<109, 119>>>>,
      <<13246, <<107, 119>>>>, <<13247, <<109, 119>>>>, <<13248, <<107, 969>>>>,
      <<13249, <<109, 969>>>>, <<13251, <<98, 113>>>>, <<13254, <<99, 8725, 107, 103>>>>,
      <<13255, <<99, 111, 46>>>>, <<13256, <<100, 98>>>>, <<13257, <<103, 121>>>>,
      <<13259, <<104, 112>>>>, <<13261, <<107, 107>>>>, <<13262, <<107, 109>>>>,
      <<13271, <<112, 104>>>>, <<13273, <<112, 112, 109>>>>, <<13274, <<112, 114>>>>,
      <<13276, <<115, 118>>>>, <<13277, <<119, 98>>>>, <<42560, <<42561>>>>, <<42562, <<42563>>>>,
      <<42564, <<42565>>>>, <<42566, <<42567>>>>, <<42568, <<42569>>>>, <<42570, <<42571>>>>,
      <<42572, <<42573>>>>, <<42574, <<42575>>>>, <<42576, <<42577>>>>, <<42578, <<42579>>>>,
      <<42580, <<42581>>>>, <<42582, <<42583>>>>, <<42584, <<42585>>>>, <<42586, <<42587>>>>,
      <<42588, <<42589>>>>, <<42590, <<42591>>>>, <<42592, <<42593>>>>, <<42594, <<42595>>>>,
      <<42596, <<42597>>>>, <<42598, <<42599>>>>, <<42600, <<42601>>>>, <<42602, <<42603>>>>,
      <<42604, <<42605>>>>, <<42624, <<42625>>>>, <<42626, <<42627>>>>, <<42628, <<42629>>>>,
      <<42630, <<42631>>>>, <<42632, <<42633>>>>, <<42634, <<42635>>>>, <<42636, <<42637>>>>,
      <<42638, <<42639>>>>, <<42640, <<42641>>>>, <<42642, <<42643>>>>, <<42644, <<42645>>>>,
      <<42646, <<42647>>>>, <<42648, <<42649>>>>, <<42650, <<42651>>>>, <<42786, <<42787>>>>,
      <<42788, <<42789>>>>, <<42790, <<42791>>>>, <<42792, <<42793>>>>, <<42794, <<42795>>>>,
      <<42796, <<42797>>>>, <<42798, <<42799>>>>, <<42802, <<42803>>>>, <<42804, <<42805>>>>,
      <<42806, <<42807>>>>, <<42808, <<42809>>>>, <<42810, <<42811>>>>, <<42812, <<42813>>>>,
      <<42814, <<42815>>>>, <<42816, <<42817>>>>, <<42818, <<42819>>>>, <<42820, <<42821>>>>,
      <<42822, <<42823>>>>, <<42824, <<42825>>>>, <<42826, <<42827>>>>, <<42828, <<42829>>>>,
      <<42830, <<42831>>>>, <<42832, <<42833>>>>, <<42834, <<42835>>>>, <<42836, <<42837>>>>,
      <<42838, <<42839>>>>, <<42840, <<42841>>>>, <<42842, <<42843>>>>, <<42844, <<42845>>>>,
      <<42846, <<42847>>>>, <<42848, <<42849>>>>, <<42850, <<42851>>>>, <<42852, <<42853>>>>,
      <<42854, <<42855>>>>, <<42856, <<42857>>>>, <<42858, <<42859>>>>, <<42860, <<42861>>>>,
      <<42862, <<42863>>>>, <<42873, <<42874>>>>, <<42875, <<42876>>>>, <<42877, <<7545>>>>,
      <<42878, <<42879>>>>, <<42880, <<42881>>>>, <<42882, <<42883>>>>, <<42884, <<42885>>>>,
      <<42886, <<42887>>>>, <<42891, <<42892>>>>, <<42893, <<613>>>>, <<42896, <<42897>>>>,
      <<42898, <<42899>>>>, <<42902, <<42903>>>>, <<42904, <<42905>>>>, <<42906, <<42907>>>>,
      <<42908, <<42909>>>>, <<42910, <<42911>>>>, <<42912, <<42913>>>>, <<42914, <<42915>>>>,
      <<42916, <<42917>>>>, <<42918, <<42919>>>>, <<42920, <<42921>>>>, <<42922, <<614>>>>,
      <<42923, <<604>>>>, <<42924, <<609>>>>, <<42925, <<620>>>>, <<42926, <<618>>>>,
      <<42928, <<670>>>>, <<42929, <<647>>>>, <<42930, <<669>>>>, <<42931, <<43859>>>>,
      <<42932, <<42933>>>>, <<42934, <<42935>>>>, <<42936, <<42937>>>>, <<42938, <<42939>>>>,
      <<42940, <<42941>>>>, <<42942, <<42943>>>>, <<42944, <<42945>>>>, <<42946, <<42947>>>>,
      <<42948, <<42900>>>>, <<42949, <<642>>>>, <<42950, <<7566>>>>, <<42951, <<42952>>>>,
      <<42953, <<42954>>>>, <<42960, <<42961>>>>, <<42966, <<42967>>>>, <<42968, <<42969>>>>,
      <<42997, <<42998>>>>, <<64256, <<102, 102>>>>, <<64257, <<102, 105>>>>,
      <<64258, <<102, 108>>>>, <<64259, <<102, 102, 105>>>>, <<64260, <<102, 102, 108>>>>,
      <<64261, <<115, 116>>>>, <<64262, <<115, 116>>>>, <<64275, <<1396, 1398>>>>,
      <<64276, <<1396, 1381>>>>, <<64277, <<1396, 1387>>>>, <<64278, <<1406, 1398>>>>,
      <<64279, <<1396, 1389>>>>, <<65313, <<65345>>>>, <<65314, <<65346>>>>, <<65315, <<65347>>>>,
      <<65316, <<65348>>>>, <<65317, <<65349>>>>, <<65318, <<65350>>>>, <<65319, <<65351>>>>,
      <<65320, <<65352>>>>, <<65321, <<65353>>>>, <<65322, <<65354>>>>, <<65323, <<65355>>>>,
      <<65324, <<65356>>>>, <<65325, <<65357>>>>, <<65326, <<65358>>>>, <<65327, <<65359>>>>,
      <<65328, <<65360>>>>, <<65329, <<65361>>>>, <<65330, <<65362>>>>, <<65331, <<65363>>>>,
      <<65332, <<65364>>>>, <<65333, <<65365>>>>, <<65334, <<65366>>>>, <<65335, <<65367>>>>,
      <<65336, <<65368>>>>, <<65337, <<65369>>>>, <<65338, <<65370>>>>, <<66560, <<66600>>>>,
      <<66561, <<66601>>>>, <<66562, <<66602>>>>, <<66563, <<66603>>>>, <<66564, <<66604>>>>,
      <<66565, <<66605>>>>, <<66566, <<66606>>>>, <<66567, <<66607>>>>, <<66568, <<66608>>>>,
      <<66569, <<66609>>>>, <<66570, <<66610>>>>, <<66571, <<66611>>>>, <<66572, <<66612>>>>,
      <<66573, <<66613>>>>, <<66574, <<66614>>>>, <<66575, <<66615>>>>, <<66576, <<66616>>>>,
      <<66577, <<66617>>>>, <<66578, <<66618>>>>, <<66579, <<66619>>>>, <<66580, <<66620>>>>,
      <<66581, <<66621>>>>, <<66582, <<66622>>>>, <<66583, <<66623>>>>, <<66584, <<66624>>>>,
      <<66585, <<66625>>>>, <<66586, <<66626>>>>, <<66587, <<66627>>>>, <<66588, <<66628>>>>,
      <<66589, <<66629>>>>, <<66590, <<66630>>>>, <<66591, <<66631>>>>, <<66592, <<66632>>>>,
      <<66593, <<66633>>>>, <<66594, <<66634>>>>, <<66595, <<66635>>>>, <<66596, <<66636>>>>,
      <<66597, <<66637>>>>, <<66598, <<66638>>>>, <<66599, <<66639>>>>, <<66736, <<66776>>>>,
      <<66737, <<66777>>>>, <<66738, <<66778>>>>, <<66739, <<66779>>>>, <<66740, <<66780>>>>,
      <<66741, <<66781>>>>, <<66742, <<66782>>>>, <<66743, <<66783>>>>, <<66744, <<66784>>>>,
      <<66745, <<66785>>>>, <<66746, <<66786>>>>, <<66747, <<66787>>>>, <<66748, <<66788>>>>,
      <<66749, <<66789>>>>, <<66750, <<66790>>>>, <<66751, <<66791>>>>, <<66752, <<66792>>>>,
      <<66753, <<66793>>>>, <<66754, <<66794>>>>, <<66755, <<66795>>>>, <<66756, <<66796>>>>,
      <<66757, <<66797>>>>, <<66758, <<66798>>>>, <<66759, <<66799>>>>, <<66760, <<66800>>>>,
      <<66761, <<66801>>>>, <<66762, <<66802>>>>, <<66763, <<66803>>>>, <<66764, <<66804>>>>,
      <<66765, <<66805>>>>, <<66766, <<66806>>>>, <<66767, <<66807>>>>, <<66768, <<66808>>>>,
      <<66769, <<66809>>>>, <<66770, <<66810>>>>, <<66771, <<66811>>>>, <<66928, <<66967>>>>,
      <<66929, <<66968>>>>, <<66930, <<66969>>>>, <<66931, <<66970>>>>, <<66932, <<66971>>>>,
      <<66933, <<66972>>>>, <<66934, <<66973>>>>, <<66935, <<66974>>>>, <<66936, <<66975>>>>,
      <<66937, <<66976>>>>, <<66938, <<66977>>>>, <<66940, <<66979>>>>, <<66941, <<66980>>>>,
      <<66942, <<66981>>>>, <<66943, <<66982>>>>, <<66944, <<66983>>>>, <<66945, <<66984>>>>,
      <<66946, <<66985>>>>, <<66947, <<66986>>>>, <<66948, <<66987>>>>, <<66949, <<66988>>>>,
      <<66950, <<66989>>>>, <<66951, <<66990>>>>, <<66952, <<66991>>>>, <<66953, <<66992>>>>,
      <<66954, <<66993>>>>, <<66956, <<66995>>>>, <<66957, <<66996>>>>, <<66958, <<66997>>>>,
      <<66959, <<66998>>>>, <<66960, <<66999>>>>, <<66961, <<67000>>>>, <<66962, <<67001>>>>,
      <<66964, <<67003>>>>, <<66965, <<67004>>>>, <<68736, <<68800>>>>, <<68737, <<68801>>>>,
      <<68738, <<68802>>>>, <<68739, <<68803>>>>, <<68740, <<68804>>>>, <<68741, <<68805>>>>,
      <<68742, <<68806>>>>, <<68743, <<68807>>>>, <<68744, <<68808>>>>, <<68745, <<68809>>>>,
      <<68746, <<68810>>>>, <<68747, <<68811>>>>, <<68748, <<68812>>>>, <<68749, <<68813>>>>,
      <<68750, <<68814>>>>, <<68751, <<68815>>>>, <<68752, <<68816>>>>, <<68753, <<68817>>>>,
      <<68754, <<68818>>>>, <<68755, <<68819>>>>, <<68756, <<68820>>>>, <<68757, <<68821>>>>,
      <<68758, <<68822>>>>, <<68759, <<68823>>>>, <<68760, <<68824>>>>, <<68761, <<68825>>>>,
      <<68762, <<68826>>>>, <<68763, <<68827>>>>, <<68764, <<68828>>>>, <<68765, <<68829>>>>,
      <<68766, <<68830>>>>, <<68767, <<68831>>>>, <<68768, <<68832>>>>, <<68769, <<68833>>>>,
      <<68770, <<68834>>>>, <<68771, <<68835>>>>, <<68772, <<68836>>>>, <<68773, <<68837>>>>,
      <<68774, <<68838>>>>, <<68775, <<68839>>>>, <<68776, <<68840>>>>, <<68777, <<68841>>>>,
      <<68778, <<68842>>>>, <<68779, <<68843>>>>, <<68780, <<68844>>>>, <<68781, <<68845>>>>,
      <<68782, <<68846>>>>, <<68783, <<68847>>>>, <<68784, <<68848>>>>, <<68785, <<68849>>>>,
      <<68786, <<68850>>>>, <<71840, <<71872>>>>, <<71841, <<71873>>>>, <<71842, <<71874>>>>,
      <<71843, <<71875>>>>, <<71844, <<71876>>>>, <<71845, <<71877>>>>, <<71846, <<71878>>>>,
      <<71847, <<71879>>>>, <<71848, <<71880>>>>, <<71849, <<71881>>>>, <<71850, <<71882>>>>,
      <<71851, <<71883>>>>, <<71852, <<71884>>>>, <<71853, <<71885>>>>, <<71854, <<71886>>>>,
      <<71855, <<71887>>>>, <<71856, <<71888>>>>, <<71857, <<71889>>>>, <<71858, <<71890>>>>,
      <<71859, <<71891>>>>, <<71860, <<71892>>>>, <<71861, <<71893>>>>, <<71862, <<71894>>>>,
      <<71863, <<71895>>>>, <<71864, <<71896>>>>, <<71865, <<71897>>>>, <<71866, <<71898>>>>,
      <<71867, <<71899>>>>, <<71868, <<71900>>>>, <<71869, <<71901>>>>, <<71870, <<71902>>>>,
      <<71871, <<71903>>>>, <<93760, <<93792>>>>, <<93761, <<93793>>>>, <<93762, <<93794>>>>,
      <<93763, <<93795>>>>, <<93764, <<93796>>>>, <<93765, <<93797>>>>, <<93766, <<93798>>>>,
      <<93767, <<93799>>>>, <<93768, <<93800>>>>, <<93769, <<93801>>>>, <<93770, <<93802>>>>,
      <<93771, <<93803>>>>, <<93772, <<93804>>>>, <<93773, <<93805>>>>, <<93774, <<93806>>>>,
      <<93775, <<93807>>>>, <<93776, <<93808>>>>, <<93777, <<93809>>>>, <<93778, <<93810>>>>,
      <<93779, <<93811>>>>, <<93780, <<93812>>>>, <<93781, <<93813>>>>, <<93782, <<93814>>>>,
      <<93783, <<93815>>>>, <<93784, <<93816>>>>, <<93785, <<93817>>>>, <<93786, <<93818>>>>,
      <<93787, <<93819>>>>, <<93788, <<93820>>>>, <<93789, <<93821>>>>, <<93790, <<93822>>>>,
      <<93791, <<93823>>>>, <<119808, <<97>>>>, <<119809, <<98>>>>, <<119810, <<99>>>>,
      <<119811, <<100>>>>, <<119812, <<101>>>>, <<119813, <<102>>>>, <<119814, <<103>>>>,
      <<119815, <<104>>>>, <<119816, <<105>>>>, <<119817, <<106>>>>, <<119818, <<107>>>>,
      <<119819, <<108>>>>, <<119820, <<109>>>>, <<119821, <<110>>>>, <<119822, <<111>>>>,
      <<119823, <<112>>>>, <<119824, <<113>>>>, <<119825, <<114>>>>, <<119826, <<115>>>>,
      <<119827, <<116>>>>, <<119828, <<117>>>>, <<119829, <<118>>>>, <<119830, <<119>>>>,
      <<119831, <<120>>>>, <<119832, <<121>>>>, <<119833, <<122>>>>, <<119860, <<97>>>>,
      <<119861, <<98>>>>, <<119862, <<99>>>>, <<119863, <<100>>>>, <<119864, <<101>>>>,
      <<119865, <<102>>>>, <<119866, <<103>>>>, <<119867, <<104>>>>, <<119868, <<105>>>>,
      <<119869, <<106>>>>, <<119870, <<107>>>>, <<119871, <<108>>>>, <<119872, <<109>>>>,
      <<119873, <<110>>>>, <<119874, <<111>>>>, <<119875, <<112>>>>, <<119876, <<113>>>>,
      <<119877, <<114>>>>, <<119878, <<115>>>>, <<119879, <<116>>>>, <<119880, <<117>>>>,
      <<119881, <<118>>>>, <<119882, <<119>>>>, <<119883, <<120>>>>, <<119884, <<121>>>>,
      <<119885, <<122>>>>, <<119912, <<97>>>>, <<119913, <<98>>>>, <<119914, <<99>>>>,
      <<119915, <<100>>>>, <<119916, <<101>>>>, <<119917, <<102>>>>, <<119918, <<103>>>>,
      <<119919, <<104>>>>, <<119920, <<105>>>>, <<119921, <<106>>>>, <<119922, <<107>>>>,
      <<119923, <<108>>>>, <<119924, <<109>>>>, <<119925, <<110>>>>, <<119926, <<111>>>>,
      <<119927, <<112>>>>, <<119928, <<113>>>>, <<119929, <<114>>>>, <<119930, <<115>>>>,
      <<119931, <<116>>>>, <<119932, <<117>>>>, <<119933, <<118>>>>, <<119934, <<119>>>>,
      <<119935, <<120>>>>, <<119936, <<121>>>>, <<119937, <<122>>>>, <<119964, <<97>>>>,
      <<119966, <<99>>>>, <<119967, <<100>>>>, <<119970, <<103>>>>, <<119973, <<106>>>>,
      <<119974, <<107>>>>, <<119977, <<110>>>>, <<119978, <<111>>>>, <<119979, <<112>>>>,
      <<119980, <<113>>>>, <<119982, <<115>>>>, <<119983, <<116>>>>, <<119984, <<117>>>>,
      <<119985, <<118>>>>, <<119986, <<119>>>>, <<119987, <<120>>>>, <<119988, <<121>>>>,
      <<119989, <<122>>>>, <<120016, <<97>>>>, <<120017, <<98>>>>, <<120018, <<99>>>>,
      <<120019, <<100>>>>, <<120020, <<101>>>>, <<120021, <<102>>>>, <<120022, <<103>>>>,
      <<120023, <<104>>>>, <<120024, <<105>>>>, <<120025, <<106>>>>, <<120026, <<107>>>>,
      <<120027, <<108>>>>, <<120028, <<109>>>>, <<120029, <<110>>>>, <<120030, <<111>>>>,
      <<120031, <<112>>>>, <<120032, <<113>>>>, <<120033, <<114>>>>, <<120034, <<115>>>>,
      <<120035, <<116>>>>, <<120036, <<117>>>>, <<120037, <<118>>>>, <<120038, <<119>>>>,
      <<120039, <<120>>>>, <<120040, <<121>>>>, <<120041, <<122>>>>, <<120068, <<97>>>>,
      <<120069, <<98>>>>, <<120071, <<100>>>>, <<120072, <<101>>>>, <<120073, <<102>>>>,
      <<120074, <<103>>>>, <<120077, <<106>>>>, <<120078, <<107>>>>, <<120079, <<108>>>>,
      <<120080, <<109>>>>, <<120081, <<110>>>>, <<120082, <<111>>>>, <<120083, <<112>>>>,
      <<120084, <<113>>>>, <<120086, <<115>>>>, <<120087, <<116>>>>, <<120088, <<117>>>>,
      <<120089, <<118>>>>, <<120090, <<119>>>>, <<120091, <<120>>>>, <<120092, <<121>>>>,
      <<120120, <<97>>>>, <<120121, <<98>>>>, <<120123, <<100>>>>, <<120124, <<101>>>>,
      <<120125, <<102>>>>, <<120126, <<103>>>>, <<120128, <<105>>>>, <<120129, <<106>>>>,
      <<120130, <<107>>>>, <<120131, <<108>>>>, <<120132, <<109>>>>, <<120134, <<111>>>>,
      <<120138, <<115>>>>, <<120139, <<116>>>>, <<120140, <<117>>>>, <<120141, <<118>>>>,
      <<120142, <<119>>>>, <<120143, <<120>>>>, <<120144, <<121>>>>, <<120172, <<97>>>>,
      <<120173, <<98>>>>, <<120174, <<99>>>>, <<120175, <<100>>>>, <<120176, <<101>>>>,
      <<120177, <<102>>>>, <<120178, <<103>>>>, <<120179, <<104>>>>, <<120180, <<105>>>>,
      <<120181, <<106>>>>, <<120182, <<107>>>>, <<120183, <<108>>>>, <<120184, <<109>>>>,
      <<120185, <<110>>>>, <<120186, <<111>>>>, <<120187, <<112>>>>, <<120188, <<113>>>>,
      <<120189, <<114>>>>, <<120190, <<115>>>>, <<120191, <<116>>>>, <<120192, <<117>>>>,
      <<120193, <<118>>>>, <<120194, <<119>>>>, <<120195, <<120>>>>, <<120196, <<121>>>>,
      <<120197, <<122>>>>, <<120224, <<97>>>>, <<120225, <<98>>>>, <<120226, <<99>>>>,
      <<120227, <<100>>>>, <<120228, <<101>>>>, <<120229, <<102>>>>, <<120230, <<103>>>>,
      <<120231, <<104>>>>, <<120232, <<105>>>>, <<120233, <<106>>>>, <<120234, <<107>>>>,
      <<120235, <<108>>>>, <<120236, <<109>>>>, <<120237, <<110>>>>, <<120238, <<111>>>>,
      <<120239, <<112>>>>, <<120240, <<113>>>>, <<120241, <<114>>>>, <<120242, <<115>>>>,
      <<120243, <<116>>>>, <<120244, <<117>>>>, <<120245, <<118>>>>, <<120246, <<119>>>>,
      <<120247, <<120>>>>, <<120248, <<121>>>>, <<120249, <<122>>>>, <<120276, <<97>>>>,
      <<120277, <<98>>>>, <<120278, <<99>>>>, <<120279, <<100>>>>, <<120280, <<101>>>>,
      <<120281, <<102>>>>, <<120282, <<103>>>>, <<120283, <<104>>>>, <<120284, <<105>>>>,
      <<120285, <<106>>>>, <<120286, <<107>>>>, <<120287, <<108>>>>, <<120288, <<109>>>>,
      <<120289, <<110>>>>, <<120290, <<111>>>>, <<120291, <<112>>>>, <<120292, <<113>>>>,
      <<120293, <<114>>>>, <<120294, <<115>>>>, <<120295, <<116>>>>, <<120296, <<117>>>>,
      <<120297, <<118>>>>, <<120298, <<119>>>>, <<120299, <<120>>>>, <<120300, <<121>>>>,
      <<120301, <<122>>>>, <<120328, <<97>>>>, <<120329, <<98>>>>, <<120330, <<99>>>>,
      <<120331, <<100>>>>, <<120332, <<101>>>>, <<120333, <<102>>>>, <<120334, <<103>>>>,
      <<120335, <<104>>>>, <<120336, <<105>>>>, <<120337, <<106>>>>, <<120338, <<107>>>>,
      <<120339, <<108>>>>, <<120340, <<109>>>>, <<120341, <<110>>>>, <<120342, <<111>>>>,
      <<120343, <<112>>>>, <<120344, <<113>>>>, <<120345, <<114>>>>, <<120346, <<115>>>>,
      <<120347, <<116>>>>, <<120348, <<117>>>>, <<120349, <<118>>>>, <<120350, <<119>>>>,
      <<120351, <<120>>>>, <<120352, <<121>>>>, <<120353, <<122>>>>, <<120380, <<97>>>>,
      <<120381, <<98>>>>, <<120382, <<99>>>>, <<120383, <<100>>>>, <<120384, <<101>>>>,
      <<120385, <<102>>>>, <<120386, <<103>>>>, <<120387, <<104>>>>, <<120388, <<105>>>>,
      <<120389, <<106>>>>, <<120390, <<107>>>>, <<120391, <<108>>>>, <<120392, <<109>>>>,
      <<120393, <<110>>>>, <<120394, <<111>>>>, <<120395, <<112>>>>, <<120396, <<113>>>>,
      <<120397, <<114>>>>, <<120398, <<115>>>>, <<120399, <<116>>>>, <<120400, <<117>>>>,
      <<120401, <<118>>>>, <<120402, <<119>>>>, <<120403, <<120>>>>, <<120404, <<121>>>>,
      <<120405, <<122>>>>, <<120432, <<97>>>>, <<120433, <<98>>>>, <<120434, <<99>>>>,
      <<120435, <<100>>>>, <<120436, <<101>>>>, <<120437, <<102>>>>, <<120438, <<103>>>>,
      <<120439, <<104>>>>, <<120440, <<105>>>>, <<120441, <<106>>>>, <<120442, <<107>>>>,
      <<120443, <<108>>>>, <<120444, <<109>>>>, <<120445, <<110>>>>, <<120446, <<111>>>>,
      <<120447, <<112>>>>, <<120448, <<113>>>>, <<120449, <<114>>>>, <<120450, <<115>>>>,
      <<120451, <<116>>>>, <<120452, <<117>>>>, <<120453, <<118>>>>, <<120454, <<119>>>>,
      <<120455, <<120>>>>, <<120456, <<121>>>>, <<120457, <<122>>>>, <<120488, <<945>>>>,
      <<120489, <<946>>>>, <<120490, <<947>>>>, <<120491, <<948>>>>, <<120492, <<949>>>>,
      <<120493, <<950>>>>, <<120494, <<951>>>>, <<120495, <<952>>>>, <<120496, <<953>>>>,
      <<120497, <<954>>>>, <<120498, <<955>>>>, <<120499, <<956>>>>, <<120500, <<957>>>>,
      <<120501, <<958>>>>, <<120502, <<959>>>>, <<120503, <<960>>>>, <<120504, <<961>>>>,
      <<120505, <<952>>>>, <<120506, <<963>>>>, <<120507, <<964>>>>, <<120508, <<965>>>>,
      <<120509, <<966>>>>, <<120510, <<967>>>>, <<120511, <<968>>>>, <<120512, <<969>>>>,
      <<120531, <<963>>>>, <<120546, <<945>>>>, <<120547, <<946>>>>, <<120548, <<947>>>>,
      <<120549, <<948>>>>, <<120550, <<949>>>>, <<120551, <<950>>>>, <<120552, <<951>>>>,
      <<120553, <<952>>>>, <<120554, <<953>>>>, <<120555, <<954>>>>, <<120556, <<955>>>>,
      <<120557, <<956>>>>, <<120558, <<957>>>>, <<120559, <<958>>>>, <<120560, <<959>>>>,
      <<120561, <<960>>>>, <<120562, <<961>>>>, <<120563, <<952>>>>, <<120564, <<963>>>>,
      <<120565, <<964>>>>, <<120566, <<965>>>>, <<120567, <<966>>>>, <<120568, <<967>>>>,
      <<120569, <<968>>>>, <<120570, <<969>>>>, <<120589, <<963>>>>, <<120604, <<945>>>>,
      <<120605, <<946>>>>, <<120606, <<947>>>>, <<120607, <<948>>>>, <<120608, <<949>>>>,
      <<120609, <<950>>>>, <<120610, <<951>>>>, <<120611, <<952>>>>, <<120612, <<953>>>>,
      <<120613, <<954>>>>, <<120614, <<955>>>>, <<120615, <<956>>>>, <<120616, <<957>>>>,
      <<120617, <<958>>>>, <<120618, <<959>>>>, <<120619, <<960>>>>, <<120620, <<961>>>>,
      <<120621, <<952>>>>, <<120622, <<963>>>>, <<120623, <<964>>>>, <<120624, <<965>>>>,
      <<120625, <<966>>>>, <<120626, <<967>>>>, <<120627, <<968>>>>, <<120628, <<969>>>>,
      <<120647, <<963>>>>, <<120662, <<945>>>>, <<120663, <<946>>>>, <<120664, <<947>>>>,
      <<120665, <<948>>>>, <<120666, <<949>>>>, <<120667, <<950>>>>, <<120668, <<951>>>>,
      <<120669, <<952>>>>, <<120670, <<953>>>>, <<120671, <<954>>>>, <<120672, <<955>>>>,
      <<120673, <<956>>>>, <<120674, <<957>>>>, <<120675, <<958>>>>, <<120676, <<959>>>>,
      <<120677, <<960>>>>, <<120678, <<961>>>>, <<120679, <<952>>>>, <<120680, <<963>>>>,
      <<120681, <<964>>>>, <<120682, <<965>>>>, <<120683, <<966>>>>, <<120684, <<967>>>>,
      <<120685, <<968>>>>, <<120686, <<969>>>>, <<120705, <<963>>>>, <<120720, <<945>>>>,
      <<120721, <<946>>>>, <<120722, <<947>>>>, <<120723, <<948>>>>, <<120724, <<949>>>>,
      <<120725, <<950>>>>, <<120726, <<951>>>>, <<120727, <<952>>>>, <<120728, <<953>>>>,
      <<120729, <<954>>>>, <<120730, <<955>>>>, <<120731, <<956>>>>, <<120732, <<957>>>>,
      <<120733, <<958>>>>, <<120734, <<959>>>>, <<120735, <<960>>>>, <<120736, <<961>>>>,
      <<120737, <<952>>>>, <<120738, <<963>>>>, <<120739, <<964>>>>, <<120740, <<965>>>>,
      <<120741, <<966>>>>, <<120742, <<967>>>>, <<120743, <<968>>>>, <<120744, <<969>>>>,
      <<120763, <<963>>>>, <<125184, <<125218>>>>, <<125185, <<125219>>>>, <<125186, <<125220>>>>,
      <<125187, <<125221>>>>, <<125188, <<125222>>>>, <<125189, <<125223>>>>, <<125190, <<125224>>>>,
      <<125191, <<125225>>>>, <<125192, <<125226>>>>, <<125193, <<125227>>>>, <<125194, <<125228>>>>,
      <<125195, <<125229>>>>, <<125196, <<125230>>>>, <<125197, <<125231>>>>, <<125198, <<125232>>>>,
      <<125199, <<125233>>>>, <<125200, <<125234>>>>, <<125201, <<125235>>>>, <<125202, <<125236>>>>,
      <<125203, <<125237>>>>, <<125204, <<125238>>>>, <<125205, <<125239>>>>, <<125206, <<125240>>>>,
      <<125207, <<125241>>>>, <<125208, <<125242>>>>, <<125209, <<125243>>>>, <<125210, <<125244>>>>,
      <<125211, <<125245>>>>, <<125212, <<125246>>>>, <<125213, <<125247>>>>, <<125214, <<125248>>>>,
      <<125215, <<125249>>>>, <<125216, <<125250>>>>, <<125217, <<125251>>>>>>

\* unicodedata.ucd_3_2_0: <<code point, its full compatibility decomposition>>
\* for every character that has one, by code point; the Hangul syllables,
\* which are decomposed by arithmetic, are not listed.
Decompositions ==
    <<<<160, <<32>>>>, <<168, <<32, 776>>>>, <<170, <<97>>>>, <<175, <<32, 772>>>>, <<178, <<50>>>>,
      <<179, <<51>>>>, <<180, <<32, 769>>>>, <<181, <<956>>>>, <<184, <<32, 807>>>>, <<185, <<49>>>>,
      <<186, <<111>>>>, <<188, <<49, 8260, 52>>>>, <<189, <<49, 8260, 50>>>>,
      <<190, <<51, 8260, 52>>>>, <<192, <<65, 768>>>>, <<193, <<65, 769>>>>, <<194, <<65, 770>>>>,
      <<195, <<65, 771>>>>, <<196, <<65, 776>>>>, <<197, <<65, 778>>>>, <<199, <<67, 807>>>>,
      <<200, <<69, 768>>>>, <<201, <<69, 769>>>>, <<202, <<69, 770>>>>, <<203, <<69, 776>>>>,
      <<204, <<73, 768>>>>, <<205, <<73, 769>>>>, <<206, <<73, 770>>>>, <<207, <<73, 776>>>>,
      <<209, <<78, 771>>>>, <<210, <<79, 768>>>>, <<211, <<79, 769>>>>, <<212, <<79, 770>>>>,
      <<213, <<79, 771>>>>, <<214, <<79, 776>>>>, <<217, <<85, 768>>>>, <<218, <<85, 769>>>>,
      <<219, <<85, 770>>>>, <<220, <<85, 776>>>>, <<221, <<89, 769>>>>, <<224, <<97, 768>>>>,
      <<225, <<97, 769>>>>, <<226, <<97, 770>>>>, <<227, <<97, 771>>>>, <<228, <<97, 776>>>>,
      <<229, <<97, 778>>>>, <<231, <<99, 807>>>>, <<232, <<101, 768>>>>, <<233, <<101, 769>>>>,
      <<234, <<101, 770>>>>, <<235, <<101, 776>>>>, <<236, <<105, 768>>>>, <<237, <<105, 769>>>>,
      <<238, <<105, 770>>>>, <<239, <<105, 776>>>>, <<241, <<110, 771>>>>, <<242, <<111, 768>>>>,
      <<243, <<111, 769>>>>, <<244, <<111, 770>>>>, <<245, <<111, 771>>>>, <<246, <<111, 776>>>>,
      <<249, <<117, 768>>>>, <<250, <<117, 769>>>>, <<251, <<117, 770>>>>, <<252, <<117, 776>>>>,
      <<253, <<121, 769>>>>, <<255, <<121, 776>>>>, <<256, <<65, 772>>>>, <<257, <<97, 772>>>>,
      <<258, <<65, 774>>>>, <<259, <<97, 774>>>>, <<260, <<65, 808>>>>, <<261, <<97, 808>>>>,
      <<262, <<67, 769>>>>, <<263, <<99, 769>>>>, <<264, <<67, 770>>>>, <<265, <<99, 770>>>>,
      <<266, <<67, 775>>>>, <<267, <<99, 775>>>>, <<268, <<67, 780>>>>, <<269, <<99, 780>>>>,
      <<270, <<68, 780>>>>, <<271, <<100, 780>>>>, <<274, <<69, 772>>>>, <<275, <<101, 772>>>>,
      <<276, <<69, 774>>>>, <<277, <<101, 774>>>>, <<278, <<69, 775>>>>, <<279, <<101, 775>>>>,
      <<280, <<69, 808>>>>, <<281, <<101, 808>>>>, <<282, <<69, 780>>>>, <<283, <<101, 780>>>>,
      <<284, <<71, 770>>>>, <<285, <<103, 770>>>>, <<286, <<71, 774>>>>, <<287, <<103, 774>>>>,
      <<288, <<71, 775>>>>, <<289, <<103, 775>>>>, <<290, <<71, 807>>>>, <<291, <<103, 807>>>>,
      <<292, <<72, 770>>>>, <<293, <<104, 770>>>>, <<296, <<73, 771>>>>, <<297, <<105, 771>>>>,
      <<298, <<73, 772>>>>, <<299, <<105, 772>>>>, <<300, <<73, 774>>>>, <<301, <<105, 774>>>>,
      <<302, <<73, 808>>>>, <<303, <<105, 808>>>>, <<304, <<73, 775>>>>, <<306, <<73, 74>>>>,
      <<307, <<105, 106>>>>, <<308, <<74, 770>>>>, <<309, <<106, 770>>>>, <<310, <<75, 807>>>>,
      <<311, <<107, 807>>>>, <<313, <<76, 769>>>>, <<314, <<108, 769>>>>, <<315, <<76, 807>>>>,
      <<316, <<108, 807>>>>, <<317, <<76, 780>>>>, <<318, <<108, 780>>>>, <<319, <<76, 183>>>>,
      <<320, <<108, 183>>>>, <<323, <<78, 769>>>>, <<324, <<110, 769>>>>, <<325, <<78, 807>>>>,
      <<326, <<110, 807>>>>, <<327, <<78, 780>>>>, <<328, <<110, 780>>>>, <<329, <<700, 110>>>>,
      <<332, <<79, 772>>>>, <<333, <<111, 772>>>>, <<334, <<79, 774>>>>, <<335, <<111, 774>>>>,
      <<336, <<79, 779>>>>, <<337, <<111, 779>>>>, <<340, <<82, 769>>>>, <<341, <<114, 769>>>>,
      <<342, <<82, 807>>>>, <<343, <<114, 807>>>>, <<344, <<82, 780>>>>, <<345, <<114, 780>>>>,
      <<346, <<83, 769>>>>, <<347, <<115, 769>>>>, <<348, <<83, 770>>>>, <<349, <<115, 770>>>>,
      <<350, <<83, 807>>>>, <<351, <<115, 807>>>>, <<352, <<83, 780>>>>, <<353, <<115, 780>>>>,
      <<354, <<84, 807>>>>, <<355, <<116, 807>>>>, <<356, <<84, 780>>>>, <<357, <<116, 780>>>>,
      <<360, <<85, 771>>>>, <<361, <<117, 771>>>>, <<362, <<85, 772>>>>, <<363, <<117, 772>>>>,
      <<364, <<85, 774>>>>, <<365, <<117, 774>>>>, <<366, <<85, 778>>>>, <<367, <<117, 778>>>>,
      <<368, <<85, 779>>>>, <<369, <<117, 779>>>>, <<370, <<85, 808>>>>, <<371, <<117, 808>>>>,
      <<372, <<87, 770>>>>, <<373, <<119, 770>>>>, <<374, <<89, 770>>>>, <<375, <<121, 770>>>>,
      <<376, <<89, 776>>>>, <<377, <<90, 769>>>>, <<378, <<122, 769>>>>, <<379, <<90, 775>>>>,
      <<380, <<122, 775>>>>, <<381, <<90, 780>>>>, <<382, <<122, 780>>>>, <<383, <<115>>>>,
      <<416, <<79, 795>>>>, <<417, <<111, 795>>>>, <<431, <<85, 795>>>>, <<432, <<117, 795>>>>,
      <<452, <<68, 90, 780>>>>, <<453, <<68, 122, 780>>>>, <<454, <<100, 122, 780>>>>,
      <<455, <<76, 74>>>>, <<456, <<76, 106>>>>, <<457, <<108, 106>>>>, <<458, <<78, 74>>>>,
      <<459, <<78, 106>>>>, <<460, <<110, 106>>>>, <<461, <<65, 780>>>>, <<462, <<97, 780>>>>,
      <<463, <<73, 780>>>>, <<464, <<105, 780>>>>, <<465, <<79, 780>>>>, <<466, <<111, 780>>>>,
      <<467, <<85, 780>>>>, <<468, <<117, 780>>>>, <<469, <<85, 776, 772>>>>,
      <<470, <<117, 776, 772>>>>, <<471, <<85, 776, 769>>>>, <<472, <<117, 776, 769>>>>,
      <<473, <<85, 776, 780>>>>, <<474, <<117, 776, 780>>>>, <<475, <<85, 776, 768>>>>,
      <<476, <<117, 776, 768>>>>, <<478, <<65, 776, 772>>>>, <<479, <<97, 776, 772>>>>,
      <<480, <<65, 775, 772>>>>, <<481, <<97, 775, 772>>>>, <<482, <<198, 772>>>>,
      <<483, <<230, 772>>>>, <<486, <<71, 780>>>>, <<487, <<103, 780>>>>, <<488, <<75, 780>>>>,
      <<489, <<107, 780>>>>, <<490, <<79, 808>>>>, <<491, <<111, 808>>>>, <<492, <<79, 808, 772>>>>,
      <<493, <<111, 808, 772>>>>, <<494, <<439, 780>>>>, <<495, <<658, 780>>>>,
      <<496, <<106, 780>>>>, <<497, <<68, 90>>>>, <<498, <<68, 122>>>>, <<499, <<100, 122>>>>,
      <<500, <<71, 769>>>>, <<501, <<103, 769>>>>, <<504, <<78, 768>>>>, <<505, <<110, 768>>>>,
      <<506, <<65, 778, 769>>>>, <<507, <<97, 778, 769>>>>, <<508, <<198, 769>>>>,
      <<509, <<230, 769>>>>, <<510, <<216, 769>>>>, <<511, <<248, 769>>>>, <<512, <<65, 783>>>>,
      <<513, <<97, 783>>>>, <<514, <<65, 785>>>>, <<515, <<97, 785>>>>, <<516, <<69, 783>>>>,
      <<517, <<101, 783>>>>, <<518, <<69, 785>>>>, <<519, <<101, 785>>>>, <<520, <<73, 783>>>>,
      <<521, <<105, 783>>>>, <<522, <<73, 785>>>>, <<523, <<105, 785>>>>, <<524, <<79, 783>>>>,
      <<525, <<111, 783>>>>, <<526, <<79, 785>>>>, <<527, <<111, 785>>>>, <<528, <<82, 783>>>>,
      <<529, <<114, 783>>>>, <<530, <<82, 785>>>>, <<531, <<114, 785>>>>, <<532, <<85, 783>>>>,
      <<533, <<117, 783>>>>, <<534, <<85, 785>>>>, <<535, <<117, 785>>>>, <<536, <<83, 806>>>>,
      <<537, <<115, 806>>>>, <<538, <<84, 806>>>>, <<539, <<116, 806>>>>, <<542, <<72, 780>>>>,
      <<543, <<104, 780>>>>, <<550, <<65, 775>>>>, <<551, <<97, 775>>>>, <<552, <<69, 807>>>>,
      <<553, <<101, 807>>>>, <<554, <<79, 776, 772>>>>, <<555, <<111, 776, 772>>>>,
      <<556, <<79, 771, 772>>>>, <<557, <<111, 771, 772>>>>, <<558, <<79, 775>>>>,
      <<559, <<111, 775>>>>, <<560, <<79, 775, 772>>>>, <<561, <<111, 775, 772>>>>,
      <<562, <<89, 772>>>>, <<563, <<121, 772>>>>, <<688, <<104>>>>, <<689, <<614>>>>,
      <<690, <<106>>>>, <<691, <<114>>>>, <<692, <<633>>>>, <<693, <<635>>>>, <<694, <<641>>>>,
      <<695, <<119>>>>, <<696, <<121>>>>, <<728, <<32, 774>>>>, <<729, <<32, 775>>>>,
      <<730, <<32, 778>>>>, <<731, <<32, 808>>>>, <<732, <<32, 771>>>>, <<733, <<32, 779>>>>,
      <<736, <<611>>>>, <<737, <<108>>>>, <<738, <<115>>>>, <<739, <<120>>>>, <<740, <<661>>>>,
      <<832, <<768>>>>, <<833, <<769>>>>, <<835, <<787>>>>, <<836, <<776, 769>>>>, <<884, <<697>>>>,
      <<890, <<32, 837>>>>, <<894, <<59>>>>, <<900, <<32, 769>>>>, <<901, <<32, 776, 769>>>>,
      <<902, <<913, 769>>>>, <<903, <<183>>>>, <<904, <<917, 769>>>>, <<905, <<919, 769>>>>,
      <<906, <<921, 769>>>>, <<908, <<927, 769>>>>, <<910, <<933, 769>>>>, <<911, <<937, 769>>>>,
      <<912, <<953, 776, 769>>>>, <<938, <<921, 776>>>>, <<939, <<933, 776>>>>,
      <<940, <<945, 769>>>>, <<941, <<949, 769>>>>, <<942, <<951, 769>>>>, <<943, <<953, 769>>>>,
      <<944, <<965, 776, 769>>>>, <<970, <<953, 776>>>>, <<971, <<965, 776>>>>,
      <<972, <<959, 769>>>>, <<973, <<965, 769>>>>, <<974, <<969, 769>>>>, <<976, <<946>>>>,
      <<977, <<952>>>>, <<978, <<933>>>>, <<979, <<933, 769>>>>, <<980, <<933, 776>>>>,
      <<981, <<966>>>>, <<982, <<960>>>>, <<1008, <<954>>>>, <<1009, <<961>>>>, <<1010, <<962>>>>,
      <<1012, <<920>>>>, <<1013, <<949>>>>, <<1024, <<1045, 768>>>>, <<1025, <<1045, 776>>>>,
      <<1027, <<1043, 769>>>>, <<1031, <<1030, 776>>>>, <<1036, <<1050, 769>>>>,
      <<1037, <<1048, 768>>>>, <<1038, <<1059, 774>>>>, <<1049, <<1048, 774>>>>,
      <<1081, <<1080, 774>>>>, <<1104, <<1077, 768>>>>, <<1105, <<1077, 776>>>>,
      <<1107, <<1075, 769>>>>, <<1111, <<1110, 776>>>>, <<1116, <<1082, 769>>>>,
      <<1117, <<1080, 768>>>>, <<1118, <<1091, 774>>>>, <<1142, <<1140, 783>>>>,
      <<1143, <<1141, 783>>>>, <<1217, <<1046, 774>>>>, <<1218, <<1078, 774>>>>,
      <<1232, <<1040, 774>>>>, <<1233, <<1072, 774>>>>, <<1234, <<1040, 776>>>>,
      <<1235, <<1072, 776>>>>, <<1238, <<1045, 774>>>>, <<1239, <<1077, 774>>>>,
      <<1242, <<1240, 776>>>>, <<1243, <<1241, 776>>>>, <<1244, <<1046, 776>>>>,
      <<1245, <<1078, 776>>>>, <<1246, <<1047, 776>>>>, <<1247, <<1079, 776>>>>,
      <<1250, <<1048, 772>>>>, <<1251, <<1080, 772>>>>, <<1252, <<1048, 776>>>>,
      <<1253, <<1080, 776>>>>, <<1254, <<1054, 776>>>>, <<1255, <<1086, 776>>>>,
      <<1258, <<1256, 776>>>>, <<1259, <<1257, 776>>>>, <<1260, <<1069, 776>>>>,
      <<1261, <<1101, 776>>>>, <<1262, <<1059, 772>>>>, <<1263, <<1091, 772>>>>,
      <<1264, <<1059, 776>>>>, <<1265, <<1091, 776>>>>, <<1266, <<1059, 779>>>>,
      <<1267, <<1091, 779>>>>, <<1268, <<1063, 776>>>>, <<1269, <<1095, 776>>>>,
      <<1272, <<1067, 776>>>>, <<1273, <<1099, 776>>>>, <<1415, <<1381, 1410>>>>,
      <<1570, <<1575, 1619>>>>, <<1571, <<1575, 1620>>>>, <<1572, <<1608, 1620>>>>,
      <<1573, <<1575, 1621>>>>, <<1574, <<1610, 1620>>>>, <<1653, <<1575, 1652>>>>,
      <<1654, <<1608, 1652>>>>, <<1655, <<1735, 1652>>>>, <<1656, <<1610, 1652>>>>,
      <<1728, <<1749, 1620>>>>, <<1730, <<1729, 1620>>>>, <<1747, <<1746, 1620>>>>,
      <<2345, <<2344, 2364>>>>, <<2353, <<2352, 2364>>>>, <<2356, <<2355, 2364>>>>,
      <<2392, <<2325, 2364>>>>, <<2393, <<2326, 2364>>>>, <<2394, <<2327, 2364>>>>,
      <<2395, <<2332, 2364>>>>, <<2396, <<2337, 2364>>>>, <<2397, <<2338, 2364>>>>,
      <<2398, <<2347, 2364>>>>, <<2399, <<2351, 2364>>>>, <<2507, <<2503, 2494>>>>,
      <<2508, <<2503, 2519>>>>, <<2524, <<2465, 2492>>>>, <<2525, <<2466, 2492>>>>,
      <<2527, <<2479, 2492>>>>, <<2611, <<2610, 2620>>>>, <<2614, <<2616, 2620>>>>,
      <<2649, <<2582, 2620>>>>, <<2650, <<2583, 2620>>>>, <<2651, <<2588, 2620>>>>,
      <<2654, <<2603, 2620>>>>, <<2888, <<2887, 2902>>>>, <<2891, <<2887, 2878>>>>,
      <<2892, <<2887, 2903>>>>, <<2908, <<2849, 2876>>>>, <<2909, <<2850, 2876>>>>,
      <<2964, <<2962, 3031>>>>, <<3018, <<3014, 3006>>>>, <<3019, <<3015, 3006>>>>,
      <<3020, <<3014, 3031>>>>, <<3144, <<3142, 3158>>>>, <<3264, <<3263, 3285>>>>,
      <<3271, <<3270, 3285>>>>, <<3272, <<3270, 3286>>>>, <<3274, <<3270, 3266>>>>,
      <<3275, <<3270, 3266, 3285>>>>, <<3402, <<3398, 3390>>>>, <<3403, <<3399, 3390>>>>,
      <<3404, <<3398, 3415>>>>, <<3546, <<3545, 3530>>>>, <<3548, <<3545, 3535>>>>,
      <<3549, <<3545, 3535, 3530>>>>, <<3550, <<3545, 3551>>>>, <<3635, <<3661, 3634>>>>,
      <<3763, <<3789, 3762>>>>, <<3804, <<3755, 3737>>>>, <<3805, <<3755, 3745>>>>,
      <<3852, <<3851>>>>, <<3907, <<3906, 4023>>>>, <<3917, <<3916, 4023>>>>,
      <<3922, <<3921, 4023>>>>, <<3927, <<3926, 4023>>>>, <<3932, <<3931, 4023>>>>,
      <<3945, <<3904, 4021>>>>, <<3955, <<3953, 3954>>>>, <<3957, <<3953, 3956>>>>,
      <<3958, <<4018, 3968>>>>, <<3959, <<4018, 3953, 3968>>>>, <<3960, <<4019, 3968>>>>,
      <<3961, <<4019, 3953, 3968>>>>, <<3969, <<3953, 3968>>>>, <<3987, <<3986, 4023>>>>,
      <<3997, <<3996, 4023>>>>, <<4002, <<4001, 4023>>>>, <<4007, <<4006, 4023>>>>,
      <<4012, <<4011, 4023>>>>, <<4025, <<3984, 4021>>>>, <<4134, <<4133, 4142>>>>,
      <<7680, <<65, 805>>>>, <<7681, <<97, 805>>>>, <<7682, <<66, 775>>>>, <<7683, <<98, 775>>>>,
      <<7684, <<66, 803>>>>, <<7685, <<98, 803>>>>, <<7686, <<66, 817>>>>, <<7687, <<98, 817>>>>,
      <<7688, <<67, 807, 769>>>>, <<7689, <<99, 807, 769>>>>, <<7690, <<68, 775>>>>,
      <<7691, <<100, 775>>>>, <<7692, <<68, 803>>>>, <<7693, <<100, 803>>>>, <<7694, <<68, 817>>>>,
      <<7695, <<100, 817>>>>, <<7696, <<68, 807>>>>, <<7697, <<100, 807>>>>, <<7698, <<68, 813>>>>,
      <<7699, <<100, 813>>>>, <<7700, <<69, 772, 768>>>>, <<7701, <<101, 772, 768>>>>,
      <<7702, <<69, 772, 769>>>>, <<7703, <<101, 772, 769>>>>, <<7704, <<69, 813>>>>,
      <<7705, <<101, 813>>>>, <<7706, <<69, 816>>>>, <<7707, <<101, 816>>>>,
      <<7708, <<69, 807, 774>>>>, <<7709, <<101, 807, 774>>>>, <<7710, <<70, 775>>>>,
      <<7711, <<102, 775>>>>, <<7712, <<71, 772>>>>, <<7713, <<103, 772>>>>, <<7714, <<72, 775>>>>,
      <<7715, <<104, 775>>>>, <<7716, <<72, 803>>>>, <<7717, <<104, 803>>>>, <<7718, <<72, 776>>>>,
      <<7719, <<104, 776>>>>, <<7720, <<72, 807>>>>, <<7721, <<104, 807>>>>, <<7722, <<72, 814>>>>,
      <<7723, <<104, 814>>>>, <<7724, <<73, 816>>>>, <<7725, <<105, 816>>>>,
      <<7726, <<73, 776, 769>>>>, <<7727, <<105, 776, 769>>>>, <<7728, <<75, 769>>>>,
      <<7729, <<107, 769>>>>, <<7730, <<75, 803>>>>, <<7731, <<107, 803>>>>, <<7732, <<75, 817>>>>,
      <<7733, <<107, 817>>>>, <<7734, <<76, 803>>>>, <<7735, <<108, 803>>>>,
      <<7736, <<76, 803, 772>>>>, <<7737, <<108, 803, 772>>>>, <<7738, <<76, 817>>>>,
      <<7739, <<108, 817>>>>, <<7740, <<76, 813>>>>, <<7741, <<108, 813>>>>, <<7742, <<77, 769>>>>,
      <<7743, <<109, 769>>>>, <<7744, <<77, 775>>>>, <<7745, <<109, 775>>>>, <<7746, <<77, 803>>>>,
      <<7747, <<109, 803>>>>, <<7748, <<78, 775>>>>, <<7749, <<110, 775>>>>, <<7750, <<78, 803>>>>,
      <<7751, <<110, 803>>>>, <<7752, <<78, 817>>>>, <<7753, <<110, 817>>>>, <<7754, <<78, 813>>>>,
      <<7755, <<110, 813>>>>, <<7756, <<79, 771, 769>>>>, <<7757, <<111, 771, 769>>>>,
      <<7758, <<79, 771, 776>>>>, <<7759, <<111, 771, 776>>>>, <<7760, <<79, 772, 768>>>>,
      <<7761, <<111, 772, 768>>>>, <<7762, <<79, 772, 769>>>>, <<7763, <<111, 772, 769>>>>,
      <<7764, <<80, 769>>>>, <<7765, <<112, 769>>>>, <<7766, <<80, 775>>>>, <<7767, <<112, 775>>>>,
      <<7768, <<82, 775>>>>, <<7769, <<114, 775>>>>, <<7770, <<82, 803>>>>, <<7771, <<114, 803>>>>,
      <<7772, <<82, 803, 772>>>>, <<7773, <<114, 803, 772>>>>, <<7774, <<82, 817>>>>,
      <<7775, <<114, 817>>>>, <<7776, <<83, 775>>>>, <<7777, <<115, 775>>>>, <<7778, <<83, 803>>>>,
      <<7779, <<115, 803>>>>, <<7780, <<83, 769, 775>>>>, <<7781, <<115, 769, 775>>>>,
      <<7782, <<83, 780, 775>>>>, <<7783, <<115, 780, 775>>>>, <<7784, <<83, 803, 775>>>>,
      <<7785, <<115, 803, 775>>>>, <<7786, <<84, 775>>>>, <<7787, <<116, 775>>>>,
      <<7788, <<84, 803>>>>, <<7789, <<116, 803>>>>, <<7790, <<84, 817>>>>, <<7791, <<116, 817>>>>,
      <<7792, <<84, 813>>>>, <<7793, <<116, 813>>>>, <<7794, <<85, 804>>>>, <<7795, <<117, 804>>>>,
      <<7796, <<85, 816>>>>, <<7797, <<117, 816>>>>, <<7798, <<85, 813>>>>, <<7799, <<117, 813>>>>,
      <<7800, <<85, 771, 769>>>>, <<7801, <<117, 771, 769>>>>, <<7802, <<85, 772, 776>>>>,
      <<7803, <<117, 772, 776>>>>, <<7804, <<86, 771>>>>, <<7805, <<118, 771>>>>,
      <<7806, <<86, 803>>>>, <<7807, <<118, 803>>>>, <<7808, <<87, 768>>>>, <<7809, <<119, 768>>>>,
      <<7810, <<87, 769>>>>, <<7811, <<119, 769>>>>, <<7812, <<87, 776>>>>, <<7813, <<119, 776>>>>,
      <<7814, <<87, 775>>>>, <<7815, <<119, 775>>>>, <<7816, <<87, 803>>>>, <<7817, <<119, 803>>>>,
      <<7818, <<88, 775>>>>, <<7819, <<120, 775>>>>, <<7820, <<88, 776>>>>, <<7821, <<120, 776>>>>,
      <<7822, <<89, 775>>>>, <<7823, <<121, 775>>>>, <<7824, <<90, 770>>>>, <<7825, <<122, 770>>>>,
      <<7826, <<90, 803>>>>, <<7827, <<122, 803>>>>, <<7828, <<90, 817>>>>, <<7829, <<122, 817>>>>,
      <<7830, <<104, 817>>>>, <<7831, <<116, 776>>>>, <<7832, <<119, 778>>>>, <<7833, <<121, 778>>>>,
      <<7834, <<97, 702>>>>, <<7835, <<115, 775>>>>, <<7840, <<65, 803>>>>, <<7841, <<97, 803>>>>,
      <<7842, <<65, 777>>>>, <<7843, <<97, 777>>>>, <<7844, <<65, 770, 769>>>>,
      <<7845, <<97, 770, 769>>>>, <<7846, <<65, 770, 768>>>>, <<7847, <<97, 770, 768>>>>,
      <<7848, <<65, 770, 777>>>>, <<7849, <<97, 770, 777>>>>, <<7850, <<65, 770, 771>>>>,
      <<7851, <<97, 770, 771>>>>, <<7852, <<65, 803, 770>>>>, <<7853, <<97, 803, 770>>>>,
      <<7854, <<65, 774, 769>>>>, <<7855, <<97, 774, 769>>>>, <<7856, <<65, 774, 768>>>>,
      <<7857, <<97, 774, 768>>>>, <<7858, <<65, 774, 777>>>>, <<7859, <<97, 774, 777>>>>,
      <<7860, <<65, 774, 771>>>>, <<7861, <<97, 774, 771>>>>, <<7862, <<65, 803, 774>>>>,
      <<7863, <<97, 803, 774>>>>, <<7864, <<69, 803>>>>, <<7865, <<101, 803>>>>,
      <<7866, <<69, 777>>>>, <<7867, <<101, 777>>>>, <<7868, <<69, 771>>>>, <<7869, <<101, 771>>>>,
      <<7870, <<69, 770, 769>>>>, <<7871, <<101, 770, 769>>>>, <<7872, <<69, 770, 768>>>>,
      <<7873, <<101, 770, 768>>>>, <<7874, <<69, 770, 777>>>>, <<7875, <<101, 770, 777>>>>,
      <<7876, <<69, 770, 771>>>>, <<7877, <<101, 770, 771>>>>, <<7878, <<69, 803, 770>>>>,
      <<7879, <<101, 803, 770>>>>, <<7880, <<73, 777>>>>, <<7881, <<105, 777>>>>,
      <<7882, <<73, 803>>>>, <<7883, <<105, 803>>>>, <<7884, <<79, 803>>>>, <<7885, <<111, 803>>>>,
      <<7886, <<79, 777>>>>, <<7887, <<111, 777>>>>, <<7888, <<79, 770, 769>>>>,
      <<7889, <<111, 770, 769>>>>, <<7890, <<79, 770, 768>>>>, <<7891, <<111, 770, 768>>>>,
      <<7892, <<79, 770, 777>>>>, <<7893, <<111, 770, 777>>>>, <<7894, <<79, 770, 771>>>>,
      <<7895, <<111, 770, 771>>>>, <<7896, <<79, 803, 770>>>>, <<7897, <<111, 803, 770>>>>,
      <<7898, <<79, 795, 769>>>>, <<7899, <<111, 795, 769>>>>, <<7900, <<79, 795, 768>>>>,
      <<7901, <<111, 795, 768>>>>, <<7902, <<79, 795, 777>>>>, <<7903, <<111, 795, 777>>>>,
      <<7904, <<79, 795, 771>>>>, <<7905, <<111, 795, 771>>>>, <<7906, <<79, 795, 803>>>>,
      <<7907, <<111, 795, 803>>>>, <<7908, <<85, 803>>>>, <<7909, <<117, 803>>>>,
      <<7910, <<85, 777>>>>, <<7911, <<117, 777>>>>, <<7912, <<85, 795, 769>>>>,
      <<7913, <<117, 795, 769>>>>, <<7914, <<85, 795, 768>>>>, <<7915, <<117, 795, 768>>>>,
      <<7916, <<85, 795, 777>>>>, <<7917, <<117, 795, 777>>>>, <<7918, <<85, 795, 771>>>>,
      <<7919, <<117, 795, 771>>>>, <<7920, <<85, 795, 803>>>>, <<7921, <<117, 795, 803>>>>,
      <<7922, <<89, 768>>>>, <<7923, <<121, 768>>>>, <<7924, <<89, 803>>>>, <<7925, <<121, 803>>>>,
      <<7926, <<89, 777>>>>, <<7927, <<121, 777>>>>, <<7928, <<89, 771>>>>, <<7929, <<121, 771>>>>,
      <<7936, <<945, 787>>>>, <<7937, <<945, 788>>>>, <<7938, <<945, 787, 768>>>>,
      <<7939, <<945, 788, 768>>>>, <<7940, <<945, 787, 769>>>>, <<7941, <<945, 788, 769>>>>,
      <<7942, <<945, 787, 834>>>>, <<7943, <<945, 788, 834>>>>, <<7944, <<913, 787>>>>,
      <<7945, <<913, 788>>>>, <<7946, <<913, 787, 768>>>>, <<7947, <<913, 788, 768>>>>,
      <<7948, <<913, 787, 769>>>>, <<7949, <<913, 788, 769>>>>, <<7950, <<913, 787, 834>>>>,
      <<7951, <<913, 788, 834>>>>, <<7952, <<949, 787>>>>, <<7953, <<949, 788>>>>,
      <<7954, <<949, 787, 768>>>>, <<7955, <<949, 788, 768>>>>, <<7956, <<949, 787, 769>>>>,
      <<7957, <<949, 788, 769>>>>, <<7960, <<917, 787>>>>, <<7961, <<917, 788>>>>,
      <<7962, <<917, 787, 768>>>>, <<7963, <<917, 788, 768>>>>, <<7964, <<917, 787, 769>>>>,
      <<7965, <<917, 788, 769>>>>, <<7968, <<951, 787>>>>, <<7969, <<951, 788>>>>,
      <<7970, <<951, 787, 768>>>>, <<7971, <<951, 788, 768>>>>, <<7972, <<951, 787, 769>>>>,
      <<7973, <<951, 788, 769>>>>, <<7974, <<951, 787, 834>>>>, <<7975, <<951, 788, 834>>>>,
      <<7976, <<919, 787>>>>, <<7977, <<919, 788>>>>, <<7978, <<919, 787, 768>>>>,
      <<7979, <<919, 788, 768>>>>, <<7980, <<919, 787, 769>>>>, <<7981, <<919, 788, 769>>>>,
      <<7982, <<919, 787, 834>>>>, <<7983, <<919, 788, 834>>>>, <<7984, <<953, 787>>>>,
      <<7985, <<953, 788>>>>, <<7986, <<953, 787, 768>>>>, <<7987, <<953, 788, 768>>>>,
      <<7988, <<953, 787, 769>>>>, <<7989, <<953, 788, 769>>>>, <<7990, <<953, 787, 834>>>>,
      <<7991, <<953, 788, 834>>>>, <<7992, <<921, 787>>>>, <<7993, <<921, 788>>>>,
      <<7994, <<921, 787, 768>>>>, <<7995, <<921, 788, 768>>>>, <<7996, <<921, 787, 769>>>>,
      <<7997, <<921, 788, 769>>>>, <<7998, <<921, 787, 834>>>>, <<7999, <<921, 788, 834>>>>,
      <<8000, <<959, 787>>>>, <<8001, <<959, 788>>>>, <<8002, <<959, 787, 768>>>>,
      <<8003, <<959, 788, 768>>>>, <<8004, <<959, 787, 769>>>>, <<8005, <<959, 788, 769>>>>,
      <<8008, <<927, 787>>>>, <<8009, <<927, 788>>>>, <<8010, <<927, 787, 768>>>>,
      <<8011, <<927, 788, 768>>>>, <<8012, <<927, 787, 769>>>>, <<8013, <<927, 788, 769>>>>,
      <<8016, <<965, 787>>>>, <<8017, <<965, 788>>>>, <<8018, <<965, 787, 768>>>>,
      <<8019, <<965, 788, 768>>>>, <<8020, <<965, 787, 769>>>>, <<8021, <<965, 788, 769>>>>,
      <<8022, <<965, 787, 834>>>>, <<8023, <<965, 788, 834>>>>, <<8025, <<933, 788>>>>,
      <<8027, <<933, 788, 768>>>>, <<8029, <<933, 788, 769>>>>, <<8031, <<933, 788, 834>>>>,
      <<8032, <<969, 787>>>>, <<8033, <<969, 788>>>>, <<8034, <<969, 787, 768>>>>,
      <<8035, <<969, 788, 768>>>>, <<8036, <<969, 787, 769>>>>, <<8037, <<969, 788, 769>>>>,
      <<8038, <<969, 787, 834>>>>, <<8039, <<969, 788, 834>>>>, <<8040, <<937, 787>>>>,
      <<8041, <<937, 788>>>>, <<8042, <<937, 787, 768>>>>, <<8043, <<937, 788, 768>>>>,
      <<8044, <<937, 787, 769>>>>, <<8045, <<937, 788, 769>>>>, <<8046, <<937, 787, 834>>>>,
      <<8047, <<937, 788, 834>>>>, <<8048, <<945, 768>>>>, <<8049, <<945, 769>>>>,
      <<8050, <<949, 768>>>>, <<8051, <<949, 769>>>>, <<8052, <<951, 768>>>>, <<8053, <<951, 769>>>>,
      <<8054, <<953, 768>>>>, <<8055, <<953, 769>>>>, <<8056, <<959, 768>>>>, <<8057, <<959, 769>>>>,
      <<8058, <<965, 768>>>>, <<8059, <<965, 769>>>>, <<8060, <<969, 768>>>>, <<8061, <<969, 769>>>>,
      <<8064, <<945, 787, 837>>>>, <<8065, <<945, 788, 837>>>>, <<8066, <<945, 787, 768, 837>>>>,
      <<8067, <<945, 788, 768, 837>>>>, <<8068, <<945, 787, 769, 837>>>>,
      <<8069, <<945, 788, 769, 837>>>>, <<8070, <<945, 787, 834, 837>>>>,
      <<8071, <<945, 788, 834, 837>>>>, <<8072, <<913, 787, 837>>>>, <<8073, <<913, 788, 837>>>>,
      <<8074, <<913, 787, 768, 837>>>>, <<8075, <<913, 788, 768, 837>>>>,
      <<8076, <<913, 787, 769, 837>>>>, <<8077, <<913, 788, 769, 837>>>>,
      <<8078, <<913, 787, 834, 837>>>>, <<8079, <<913, 788, 834, 837>>>>,
      <<8080, <<951, 787, 837>>>>, <<8081, <<951, 788, 837>>>>, <<8082, <<951, 787, 768, 837>>>>,
      <<8083, <<951, 788, 768, 837>>>>, <<8084, <<951, 787, 769, 837>>>>,
      <<8085, <<951, 788, 769, 837>>>>, <<8086, <<951, 787, 834, 837>>>>,
      <<8087, <<951, 788, 834, 837>>>>, <<8088, <<919, 787, 837>>>>, <<8089, <<919, 788, 837>>>>,
      <<8090, <<919, 787, 768, 837>>>>, <<8091, <<919, 788, 768, 837>>>>,
      <<8092, <<919, 787, 769, 837>>>>, <<8093, <<919, 788, 769, 837>>>>,
      <<8094, <<919, 787, 834, 837>>>>, <<8095, <<919, 788, 834, 837>>>>,
      <<8096, <<969, 787, 837>>>>, <<8097, <<969, 788, 837>>>>, <<8098, <<969, 787, 768, 837>>>>,
      <<8099, <<969, 788, 768, 837>>>>, <<8100, <<969, 787, 769, 837>>>>,
      <<8101, <<969, 788, 769, 837>>>>, <<8102, <<969, 787, 834, 837>>>>,
      <<8103, <<969, 788, 834, 837>>>>, <<8104, <<937, 787, 837>>>>, <<8105, <<937, 788, 837>>>>,
      <<8106, <<937, 787, 768, 837>>>>, <<8107, <<937, 788, 768, 837>>>>,
      <<8108, <<937, 787, 769, 837>>>>, <<8109, <<937, 788, 769, 837>>>>,
      <<8110, <<937, 787, 834, 837>>>>, <<8111, <<937, 788, 834, 837>>>>, <<8112, <<945, 774>>>>,
      <<8113, <<945, 772>>>>, <<8114, <<945, 768, 837>>>>, <<8115, <<945, 837>>>>,
      <<8116, <<945, 769, 837>>>>, <<8118, <<945, 834>>>>, <<8119, <<945, 834, 837>>>>,
      <<8120, <<913, 774>>>>, <<8121, <<913, 772>>>>, <<8122, <<913, 768>>>>, <<8123, <<913, 769>>>>,
      <<8124, <<913, 837>>>>, <<8125, <<32, 787>>>>, <<8126, <<953>>>>, <<8127, <<32, 787>>>>,
      <<8128, <<32, 834>>>>, <<8129, <<32, 776, 834>>>>, <<8130, <<951, 768, 837>>>>,
      <<8131, <<951, 837>>>>, <<8132, <<951, 769, 837>>>>, <<8134, <<951, 834>>>>,
      <<8135, <<951, 834, 837>>>>, <<8136, <<917, 768>>>>, <<8137, <<917, 769>>>>,
      <<8138, <<919, 768>>>>, <<8139, <<919, 769>>>>, <<8140, <<919, 837>>>>,
      <<8141, <<32, 787, 768>>>>, <<8142, <<32, 787, 769>>>>, <<8143, <<32, 787, 834>>>>,
      <<8144, <<953, 774>>>>, <<8145, <<953, 772>>>>, <<8146, <<953, 776, 768>>>>,
      <<8147, <<953, 776, 769>>>>, <<8150, <<953, 834>>>>, <<8151, <<953, 776, 834>>>>,
      <<8152, <<921, 774>>>>, <<8153, <<921, 772>>>>, <<8154, <<921, 768>>>>, <<8155, <<921, 769>>>>,
      <<8157, <<32, 788, 768>>>>, <<8158, <<32, 788, 769>>>>, <<8159, <<32, 788, 834>>>>,
      <<8160, <<965, 774>>>>, <<8161, <<965, 772>>>>, <<8162, <<965, 776, 768>>>>,
      <<8163, <<965, 776, 769>>>>, <<8164, <<961, 787>>>>, <<8165, <<961, 788>>>>,
      <<8166, <<965, 834>>>>, <<8167, <<965, 776, 834>>>>, <<8168, <<933, 774>>>>,
      <<8169, <<933, 772>>>>, <<8170, <<933, 768>>>>, <<8171, <<933, 769>>>>, <<8172, <<929, 788>>>>,
      <<8173, <<32, 776, 768>>>>, <<8174, <<32, 776, 769>>>>, <<8175, <<96>>>>,
      <<8178, <<969, 768, 837>>>>, <<8179, <<969, 837>>>>, <<8180, <<969, 769, 837>>>>,
      <<8182, <<969, 834>>>>, <<8183, <<969, 834, 837>>>>, <<8184, <<927, 768>>>>,
      <<8185, <<927, 769>>>>, <<8186, <<937, 768>>>>, <<8187, <<937, 769>>>>, <<8188, <<937, 837>>>>,
      <<8189, <<32, 769>>>>, <<8190, <<32, 788>>>>, <<8192, <<32>>>>, <<8193, <<32>>>>,
      <<8194, <<32>>>>, <<8195, <<32>>>>, <<8196, <<32>>>>, <<8197, <<32>>>>, <<8198, <<32>>>>,
      <<8199, <<32>>>>, <<8200, <<32>>>>, <<8201, <<32>>>>, <<8202, <<32>>>>, <<8209, <<8208>>>>,
      <<8215, <<32, 819>>>>, <<8228, <<46>>>>, <<8229, <<46, 46>>>>, <<8230, <<46, 46, 46>>>>,
      <<8239, <<32>>>>, <<8243, <<8242, 8242>>>>, <<8244, <<8242, 8242, 8242>>>>,
      <<8246, <<8245, 8245>>>>, <<8247, <<8245, 8245, 8245>>>>, <<8252, <<33, 33>>>>,
      <<8254, <<32, 773>>>>, <<8263, <<63, 63>>>>, <<8264, <<63, 33>>>>, <<8265, <<33, 63>>>>,
      <<8279, <<8242, 8242, 8242, 8242>>>>, <<8287, <<32>>>>, <<8304, <<48>>>>, <<8305, <<105>>>>,
      <<8308, <<52>>>>, <<8309, <<53>>>>, <<8310, <<54>>>>, <<8311, <<55>>>>, <<8312, <<56>>>>,
      <<8313, <<57>>>>, <<8314, <<43>>>>, <<8315, <<8722>>>>, <<8316, <<61>>>>, <<8317, <<40>>>>,
      <<8318, <<41>>>>, <<8319, <<110>>>>, <<8320, <<48>>>>, <<8321, <<49>>>>, <<8322, <<50>>>>,
      <<8323, <<51>>>>, <<8324, <<52>>>>, <<8325, <<53>>>>, <<8326, <<54>>>>, <<8327, <<55>>>>,
      <<8328, <<56>>>>, <<8329, <<57>>>>, <<8330, <<43>>>>, <<8331, <<8722>>>>, <<8332, <<61>>>>,
      <<8333, <<40>>>>, <<8334, <<41>>>>, <<8360, <<82, 115>>>>, <<8448, <<97, 47, 99>>>>,
      <<8449, <<97, 47, 115>>>>, <<8450, <<67>>>>, <<8451, <<176, 67>>>>, <<8453, <<99, 47, 111>>>>,
      <<8454, <<99, 47, 117>>>>, <<8455, <<400>>>>, <<8457, <<176, 70>>>>, <<8458, <<103>>>>,
      <<8459, <<72>>>>, <<8460, <<72>>>>, <<8461, <<72>>>>, <<8462, <<104>>>>, <<8463, <<295>>>>,
      <<8464, <<73>>>>, <<8465, <<73>>>>, <<8466, <<76>>>>, <<8467, <<108>>>>, <<8469, <<78>>>>,
      <<8470, <<78, 111>>>>, <<8473, <<80>>>>, <<8474, <<81>>>>, <<8475, <<82>>>>, <<8476, <<82>>>>,
      <<8477, <<82>>>>, <<8480, <<83, 77>>>>, <<8481, <<84, 69, 76>>>>, <<8482, <<84, 77>>>>,
      <<8484, <<90>>>>, <<8486, <<937>>>>, <<8488, <<90>>>>, <<8490, <<75>>>>, <<8491, <<65, 778>>>>,
      <<8492, <<66>>>>, <<8493, <<67>>>>, <<8495, <<101>>>>, <<8496, <<69>>>>, <<8497, <<70>>>>,
      <<8499, <<77>>>>, <<8500, <<111>>>>, <<8501, <<1488>>>>, <<8502, <<1489>>>>,
      <<8503, <<1490>>>>, <<8504, <<1491>>>>, <<8505, <<105>>>>, <<8509, <<947>>>>,
      <<8510, <<915>>>>, <<8511, <<928>>>>, <<8512, <<8721>>>>, <<8517, <<68>>>>, <<8518, <<100>>>>,
      <<8519, <<101>>>>, <<8520, <<105>>>>, <<8521, <<106>>>>, <<8531, <<49, 8260, 51>>>>,
      <<8532, <<50, 8260, 51>>>>, <<8533, <<49, 8260, 53>>>>, <<8534, <<50, 8260, 53>>>>,
      <<8535, <<51, 8260, 53>>>>, <<8536, <<52, 8260, 53>>>>, <<8537, <<49, 8260, 54>>>>,
      <<8538, <<53, 8260, 54>>>>, <<8539, <<49, 8260, 56>>>>, <<8540, <<51, 8260, 56>>>>,
      <<8541, <<53, 8260, 56>>>>, <<8542, <<55, 8260, 56>>>>, <<8543, <<49, 8260>>>>,
      <<8544, <<73>>>>, <<8545, <<73, 73>>>>, <<8546, <<73, 73, 73>>>>, <<8547, <<73, 86>>>>,
      <<8548, <<86>>>>, <<8549, <<86, 73>>>>, <<8550, <<86, 73, 73>>>>, <<8551, <<86, 73, 73, 73>>>>,
      <<8552, <<73, 88>>>>, <<8553, <<88>>>>, <<8554, <<88, 73>>>>, <<8555, <<88, 73, 73>>>>,
      <<8556, <<76>>>>, <<8557, <<67>>>>, <<8558, <<68>>>>, <<8559, <<77>>>>, <<8560, <<105>>>>,
      <<8561, <<105, 105>>>>, <<8562, <<105, 105, 105>>>>, <<8563, <<105, 118>>>>, <<8564, <<118>>>>,
      <<8565, <<118, 105>>>>, <<8566, <<118, 105, 105>>>>, <<8567, <<118, 105, 105, 105>>>>,
      <<8568, <<105, 120>>>>, <<8569, <<120>>>>, <<8570, <<120, 105>>>>, <<8571, <<120, 105, 105>>>>,
      <<8572, <<108>>>>, <<8573, <<99>>>>, <<8574, <<100>>>>, <<8575, <<109>>>>,
      <<8602, <<8592, 824>>>>, <<8603, <<8594, 824>>>>, <<8622, <<8596, 824>>>>,
      <<8653, <<8656, 824>>>>, <<8654, <<8660, 824>>>>, <<8655, <<8658, 824>>>>,
      <<8708, <<8707, 824>>>>, <<8713, <<8712, 824>>>>, <<8716, <<8715, 824>>>>,
      <<8740, <<8739, 824>>>>, <<8742, <<8741, 824>>>>, <<8748, <<8747, 8747>>>>,
      <<8749, <<8747, 8747, 8747>>>>, <<8751, <<8750, 8750>>>>, <<8752, <<8750, 8750, 8750>>>>,
      <<8769, <<8764, 824>>>>, <<8772, <<8771, 824>>>>, <<8775, <<8773, 824>>>>,
      <<8777, <<8776, 824>>>>, <<8800, <<61, 824>>>>, <<8802, <<8801, 824>>>>,
      <<8813, <<8781, 824>>>>, <<8814, <<60, 824>>>>, <<8815, <<62, 824>>>>, <<8816, <<8804, 824>>>>,
      <<8817, <<8805, 824>>>>, <<8820, <<8818, 824>>>>, <<8821, <<8819, 824>>>>,
      <<8824, <<8822, 824>>>>, <<8825, <<8823, 824>>>>, <<8832, <<8826, 824>>>>,
      <<8833, <<8827, 824>>>>, <<8836, <<8834, 824>>>>, <<8837, <<8835, 824>>>>,
      <<8840, <<8838, 824>>>>, <<8841, <<8839, 824>>>>, <<8876, <<8866, 824>>>>,
      <<8877, <<8872, 824>>>>, <<8878, <<8873, 824>>>>, <<8879, <<8875, 824>>>>,
      <<8928, <<8828, 824>>>>, <<8929, <<8829, 824>>>>, <<8930, <<8849, 824>>>>,
      <<8931, <<8850, 824>>>>, <<8938, <<8882, 824>>>>, <<8939, <<8883, 824>>>>,
      <<8940, <<8884, 824>>>>, <<8941, <<8885, 824>>>>, <<9001, <<12296>>>>, <<9002, <<12297>>>>,
      <<9312, <<49>>>>, <<9313, <<50>>>>, <<9314, <<51>>>>, <<9315, <<52>>>>, <<9316, <<53>>>>,
      <<9317, <<54>>>>, <<9318, <<55>>>>, <<9319, <<56>>>>, <<9320, <<57>>>>, <<9321, <<49, 48>>>>,
      <<9322, <<49, 49>>>>, <<9323, <<49, 50>>>>, <<9324, <<49, 51>>>>, <<9325, <<49, 52>>>>,
      <<9326, <<49, 53>>>>, <<9327, <<49, 54>>>>, <<9328, <<49, 55>>>>, <<9329, <<49, 56>>>>,
      <<9330, <<49, 57>>>>, <<9331, <<50, 48>>>>, <<9332, <<40, 49, 41>>>>, <<9333, <<40, 50, 41>>>>,
      <<9334, <<40, 51, 41>>>>, <<9335, <<40, 52, 41>>>>, <<9336, <<40, 53, 41>>>>,
      <<9337, <<40, 54, 41>>>>, <<9338, <<40, 55, 41>>>>, <<9339, <<40, 56, 41>>>>,
      <<9340, <<40, 57, 41>>>>, <<9341, <<40, 49, 48, 41>>>>, <<9342, <<40, 49, 49, 41>>>>,
      <<9343, <<40, 49, 50, 41>>>>, <<9344, <<40, 49, 51, 41>>>>, <<9345, <<40, 49, 52, 41>>>>,
      <<9346, <<40, 49, 53, 41>>>>, <<9347, <<40, 49, 54, 41>>>>, <<9348, <<40, 49, 55, 41>>>>,
      <<9349, <<40, 49, 56, 41>>>>, <<9350, <<40, 49, 57, 41>>>>, <<9351, <<40, 50, 48, 41>>>>,
      <<9352, <<49, 46>>>>, <<9353, <<50, 46>>>>, <<9354, <<51, 46>>>>, <<9355, <<52, 46>>>>,
      <<9356, <<53, 46>>>>, <<9357, <<54, 46>>>>, <<9358, <<55, 46>>>>, <<9359, <<56, 46>>>>,
      <<9360, <<57, 46>>>>, <<9361, <<49, 48, 46>>>>, <<9362, <<49, 49, 46>>>>,
      <<9363, <<49, 50, 46>>>>, <<9364, <<49, 51, 46>>>>, <<9365, <<49, 52, 46>>>>,
      <<9366, <<49, 53, 46>>>>, <<9367, <<49, 54, 46>>>>, <<9368, <<49, 55, 46>>>>,
      <<9369, <<49, 56, 46>>>>, <<9370, <<49, 57, 46>>>>, <<9371, <<50, 48, 46>>>>,
      <<9372, <<40, 97, 41>>>>, <<9373, <<40, 98, 41>>>>, <<9374, <<40, 99, 41>>>>,
      <<9375, <<40, 100, 41>>>>, <<9376, <<40, 101, 41>>>>, <<9377, <<40, 102, 41>>>>,
      <<9378, <<40, 103, 41>>>>, <<9379, <<40, 104, 41>>>>, <<9380, <<40, 105, 41>>>>,
      <<9381, <<40, 106, 41>>>>, <<9382, <<40, 107, 41>>>>, <<9383, <<40, 108, 41>>>>,
      <<9384, <<40, 109, 41>>>>, <<9385, <<40, 110, 41>>>>, <<9386, <<40, 111, 41>>>>,
      <<9387, <<40, 112, 41>>>>, <<9388, <<40, 113, 41>>>>, <<9389, <<40, 114, 41>>>>,
      <<9390, <<40, 115, 41>>>>, <<9391, <<40, 116, 41>>>>, <<9392, <<40, 117, 41>>>>,
      <<9393, <<40, 118, 41>>>>, <<9394, <<40, 119, 41>>>>, <<9395, <<40, 120, 41>>>>,
      <<9396, <<40, 121, 41>>>>, <<9397, <<40, 122, 41>>>>, <<9398, <<65>>>>, <<9399, <<66>>>>,
      <<9400, <<67>>>>, <<9401, <<68>>>>, <<9402, <<69>>>>, <<9403, <<70>>>>, <<9404, <<71>>>>,
      <<9405, <<72>>>>, <<9406, <<73>>>>, <<9407, <<74>>>>, <<9408, <<75>>>>, <<9409, <<76>>>>,
      <<9410, <<77>>>>, <<9411, <<78>>>>, <<9412, <<79>>>>, <<9413, <<80>>>>, <<9414, <<81>>>>,
      <<9415, <<82>>>>, <<9416, <<83>>>>, <<9417, <<84>>>>, <<9418, <<85>>>>, <<9419, <<86>>>>,
      <<9420, <<87>>>>, <<9421, <<88>>>>, <<9422, <<89>>>>, <<9423, <<90>>>>, <<9424, <<97>>>>,
      <<9425, <<98>>>>, <<9426, <<99>>>>, <<9427, <<100>>>>, <<9428, <<101>>>>, <<9429, <<102>>>>,
      <<9430, <<103>>>>, <<9431, <<104>>>>, <<9432, <<105>>>>, <<9433, <<106>>>>, <<9434, <<107>>>>,
      <<9435, <<108>>>>, <<9436, <<109>>>>, <<9437, <<110>>>>, <<9438, <<111>>>>, <<9439, <<112>>>>,
      <<9440, <<113>>>>, <<9441, <<114>>>>, <<9442, <<115>>>>, <<9443, <<116>>>>, <<9444, <<117>>>>,
      <<9445, <<118>>>>, <<9446, <<119>>>>, <<9447, <<120>>>>, <<9448, <<121>>>>, <<9449, <<122>>>>,
      <<9450, <<48>>>>, <<10764, <<8747, 8747, 8747, 8747>>>>, <<10868, <<58, 58, 61>>>>,
      <<10869, <<61, 61>>>>, <<10870, <<61, 61, 61>>>>, <<10972, <<10973, 824>>>>,
      <<11935, <<27597>>>>, <<12019, <<40863>>>>, <<12032, <<19968>>>>, <<12033, <<20008>>>>,
      <<12034, <<20022>>>>, <<12035, <<20031>>>>, <<12036, <<20057>>>>, <<12037, <<20101>>>>,
      <<12038, <<20108>>>>, <<12039, <<20128>>>>, <<12040, <<20154>>>>, <<12041, <<20799>>>>,
      <<12042, <<20837>>>>, <<12043, <<20843>>>>, <<12044, <<20866>>>>, <<12045, <<20886>>>>,
      <<12046, <<20907>>>>, <<12047, <<20960>>>>, <<12048, <<20981>>>>, <<12049, <<20992>>>>,
      <<12050, <<21147>>>>, <<12051, <<21241>>>>, <<12052, <<21269>>>>, <<12053, <<21274>>>>,
      <<12054, <<21304>>>>, <<12055, <<21313>>>>, <<12056, <<21340>>>>, <<12057, <<21353>>>>,
      <<12058, <<21378>>>>, <<12059, <<21430>>>>, <<12060, <<21448>>>>, <<12061, <<21475>>>>,
      <<12062, <<22231>>>>, <<12063, <<22303>>>>, <<12064, <<22763>>>>, <<12065, <<22786>>>>,
      <<12066, <<22794>>>>, <<12067, <<22805>>>>, <<12068, <<22823>>>>, <<12069, <<22899>>>>,
      <<12070, <<23376>>>>, <<12071, <<23424>>>>, <<12072, <<23544>>>>, <<12073, <<23567>>>>,
      <<12074, <<23586>>>>, <<12075, <<23608>>>>, <<12076, <<23662>>>>, <<12077, <<23665>>>>,
      <<12078, <<24027>>>>, <<12079, <<24037>>>>, <<12080, <<24049>>>>, <<12081, <<24062>>>>,
      <<12082, <<24178>>>>, <<12083, <<24186>>>>, <<12084, <<24191>>>>, <<12085, <<24308>>>>,
      <<12086, <<24318>>>>, <<12087, <<24331>>>>, <<12088, <<24339>>>>, <<12089, <<24400>>>>,
      <<12090, <<24417>>>>, <<12091, <<24435>>>>, <<12092, <<24515>>>>, <<12093, <<25096>>>>,
      <<12094, <<25142>>>>, <<12095, <<25163>>>>, <<12096, <<25903>>>>, <<12097, <<25908>>>>,
      <<12098, <<25991>>>>, <<12099, <<26007>>>>, <<12100, <<26020>>>>, <<12101, <<26041>>>>,
      <<12102, <<26080>>>>, <<12103, <<26085>>>>, <<12104, <<26352>>>>, <<12105, <<26376>>>>,
      <<12106, <<26408>>>>, <<12107, <<27424>>>>, <<12108, <<27490>>>>, <<12109, <<27513>>>>,
      <<12110, <<27571>>>>, <<12111, <<27595>>>>, <<12112, <<27604>>>>, <<12113, <<27611>>>>,
      <<12114, <<27663>>>>, <<12115, <<27668>>>>, <<12116, <<27700>>>>, <<12117, <<28779>>>>,
      <<12118, <<29226>>>>, <<12119, <<29238>>>>, <<12120, <<29243>>>>, <<12121, <<29247>>>>,
      <<12122, <<29255>>>>, <<12123, <<29273>>>>, <<12124, <<29275>>>>, <<12125, <<29356>>>>,
      <<12126, <<29572>>>>, <<12127, <<29577>>>>, <<12128, <<29916>>>>, <<12129, <<29926>>>>,
      <<12130, <<29976>>>>, <<12131, <<29983>>>>, <<12132, <<29992>>>>, <<12133, <<30000>>>>,
      <<12134, <<30091>>>>, <<12135, <<30098>>>>, <<12136, <<30326>>>>, <<12137, <<30333>>>>,
      <<12138, <<30382>>>>, <<12139, <<30399>>>>, <<12140, <<30446>>>>, <<12141, <<30683>>>>,
      <<12142, <<30690>>>>, <<12143, <<30707>>>>, <<12144, <<31034>>>>, <<12145, <<31160>>>>,
      <<12146, <<31166>>>>, <<12147, <<31348>>>>, <<12148, <<31435>>>>, <<12149, <<31481>>>>,
      <<12150, <<31859>>>>, <<12151, <<31992>>>>, <<12152, <<32566>>>>, <<12153, <<32593>>>>,
      <<12154, <<32650>>>>, <<12155, <<32701>>>>, <<12156, <<32769>>>>, <<12157, <<32780>>>>,
      <<12158, <<32786>>>>, <<12159, <<32819>>>>, <<12160, <<32895>>>>, <<12161, <<32905>>>>,
      <<12162, <<33251>>>>, <<12163, <<33258>>>>, <<12164, <<33267>>>>, <<12165, <<33276>>>>,
      <<12166, <<33292>>>>, <<12167, <<33307>>>>, <<12168, <<33311>>>>, <<12169, <<33390>>>>,
      <<12170, <<33394>>>>, <<12171, <<33400>>>>, <<12172, <<34381>>>>, <<12173, <<34411>>>>,
      <<12174, <<34880>>>>, <<12175, <<34892>>>>, <<12176, <<34915>>>>, <<12177, <<35198>>>>,
      <<12178, <<35211>>>>, <<12179, <<35282>>>>, <<12180, <<35328>>>>, <<12181, <<35895>>>>,
      <<12182, <<35910>>>>, <<12183, <<35925>>>>, <<12184, <<35960>>>>, <<12185, <<35997>>>>,
      <<12186, <<36196>>>>, <<12187, <<36208>>>>, <<12188, <<36275>>>>, <<12189, <<36523>>>>,
      <<12190, <<36554>>>>, <<12191, <<36763>>>>, <<12192, <<36784>>>>, <<12193, <<36789>>>>,
      <<12194, <<37009>>>>, <<12195, <<37193>>>>, <<12196, <<37318>>>>, <<12197, <<37324>>>>,
      <<12198, <<37329>>>>, <<12199, <<38263>>>>, <<12200, <<38272>>>>, <<12201, <<38428>>>>,
      <<12202, <<38582>>>>, <<12203, <<38585>>>>, <<12204, <<38632>>>>, <<12205, <<38737>>>>,
      <<12206, <<38750>>>>, <<12207, <<38754>>>>, <<12208, <<38761>>>>, <<12209, <<38859>>>>,
      <<12210, <<38893>>>>, <<12211, <<38899>>>>, <<12212, <<38913>>>>, <<12213, <<39080>>>>,
      <<12214, <<39131>>>>, <<12215, <<39135>>>>, <<12216, <<39318>>>>, <<12217, <<39321>>>>,
      <<12218, <<39340>>>>, <<12219, <<39592>>>>, <<12220, <<39640>>>>, <<12221, <<39647>>>>,
      <<12222, <<39717>>>>, <<12223, <<39727>>>>, <<12224, <<39730>>>>, <<12225, <<39740>>>>,
      <<12226, <<39770>>>>, <<12227, <<40165>>>>, <<12228, <<40565>>>>, <<12229, <<40575>>>>,
      <<12230, <<40613>>>>, <<12231, <<40635>>>>, <<12232, <<40643>>>>, <<12233, <<40653>>>>,
      <<12234, <<40657>>>>, <<12235, <<40697>>>>, <<12236, <<40701>>>>, <<12237, <<40718>>>>,
      <<12238, <<40723>>>>, <<12239, <<40736>>>>, <<12240, <<40763>>>>, <<12241, <<40778>>>>,
      <<12242, <<40786>>>>, <<12243, <<40845>>>>, <<12244, <<40860>>>>, <<12245, <<40864>>>>,
      <<12288, <<32>>>>, <<12342, <<12306>>>>, <<12344, <<21313>>>>, <<12345, <<21316>>>>,
      <<12346, <<21317>>>>, <<12364, <<12363, 12441>>>>, <<12366, <<12365, 12441>>>>,
      <<12368, <<12367, 12441>>>>, <<12370, <<12369, 12441>>>>, <<12372, <<12371, 12441>>>>,
      <<12374, <<12373, 12441>>>>, <<12376, <<12375, 12441>>>>, <<12378, <<12377, 12441>>>>,
      <<12380, <<12379, 12441>>>>, <<12382, <<12381, 12441>>>>, <<12384, <<12383, 12441>>>>,
      <<12386, <<12385, 12441>>>>, <<12389, <<12388, 12441>>>>, <<12391, <<12390, 12441>>>>,
      <<12393, <<12392, 12441>>>>, <<12400, <<12399, 12441>>>>, <<12401, <<12399, 12442>>>>,
      <<12403, <<12402, 12441>>>>, <<12404, <<12402, 12442>>>>, <<12406, <<12405, 12441>>>>,
      <<12407, <<12405, 12442>>>>, <<12409, <<12408, 12441>>>>, <<12410, <<12408, 12442>>>>,
      <<12412, <<12411, 12441>>>>, <<12413, <<12411, 12442>>>>, <<12436, <<12358, 12441>>>>,
      <<12443, <<32, 12441>>>>, <<12444, <<32, 12442>>>>, <<12446, <<12445, 12441>>>>,
      <<12447, <<12424, 12426>>>>, <<12460, <<12459, 12441>>>>, <<12462, <<12461, 12441>>>>,
      <<12464, <<12463, 12441>>>>, <<12466, <<12465, 12441>>>>, <<12468, <<12467, 12441>>>>,
      <<12470, <<12469, 12441>>>>, <<12472, <<12471, 12441>>>>, <<12474, <<12473, 12441>>>>,
      <<12476, <<12475, 12441>>>>, <<12478, <<12477, 12441>>>>, <<12480, <<12479, 12441>>>>,
      <<12482, <<12481, 12441>>>>, <<12485, <<12484, 12441>>>>, <<12487, <<12486, 12441>>>>,
      <<12489, <<12488, 12441>>>>, <<12496, <<12495, 12441>>>>, <<12497, <<12495, 12442>>>>,
      <<12499, <<12498, 12441>>>>, <<12500, <<12498, 12442>>>>, <<12502, <<12501, 12441>>>>,
      <<12503, <<12501, 12442>>>>, <<12505, <<12504, 12441>>>>, <<12506, <<12504, 12442>>>>,
      <<12508, <<12507, 12441>>>>, <<12509, <<12507, 12442>>>>, <<12532, <<12454, 12441>>>>,
      <<12535, <<12527, 12441>>>>, <<12536, <<12528, 12441>>>>, <<12537, <<12529, 12441>>>>,
      <<12538, <<12530, 12441>>>>, <<12542, <<12541, 12441>>>>, <<12543, <<12467, 12488>>>>,
      <<12593, <<4352>>>>, <<12594, <<4353>>>>, <<12595, <<4522>>>>, <<12596, <<4354>>>>,
      <<12597, <<4524>>>>, <<12598, <<4525>>>>, <<12599, <<4355>>>>, <<12600, <<4356>>>>,
      <<12601, <<4357>>>>, <<12602, <<4528>>>>, <<12603, <<4529>>>>, <<12604, <<4530>>>>,
      <<12605, <<4531>>>>, <<12606, <<4532>>>>, <<12607, <<4533>>>>, <<12608, <<4378>>>>,
      <<12609, <<4358>>>>, <<12610, <<4359>>>>, <<12611, <<4360>>>>, <<12612, <<4385>>>>,
      <<12613, <<4361>>>>, <<12614, <<4362>>>>, <<12615, <<4363>>>>, <<12616, <<4364>>>>,
      <<12617, <<4365>>>>, <<12618, <<4366>>>>, <<12619, <<4367>>>>, <<12620, <<4368>>>>,
      <<12621, <<4369>>>>, <<12622, <<4370>>>>, <<12623, <<4449>>>>, <<12624, <<4450>>>>,
      <<12625, <<4451>>>>, <<12626, <<4452>>>>, <<12627, <<4453>>>>, <<12628, <<4454>>>>,
      <<12629, <<4455>>>>, <<12630, <<4456>>>>, <<12631, <<4457>>>>, <<12632, <<4458>>>>,
      <<12633, <<4459>>>>, <<12634, <<4460>>>>, <<12635, <<4461>>>>, <<12636, <<4462>>>>,
      <<12637, <<4463>>>>, <<12638, <<4464>>>>, <<12639, <<4465>>>>, <<12640, <<4466>>>>,
      <<12641, <<4467>>>>, <<12642, <<4468>>>>, <<12643, <<4469>>>>, <<12644, <<4448>>>>,
      <<12645, <<4372>>>>, <<12646, <<4373>>>>, <<12647, <<4551>>>>, <<12648, <<4552>>>>,
      <<12649, <<4556>>>>, <<12650, <<4558>>>>, <<12651, <<4563>>>>, <<12652, <<4567>>>>,
      <<12653, <<4569>>>>, <<12654, <<4380>>>>, <<12655, <<4573>>>>, <<12656, <<4575>>>>,
      <<12657, <<4381>>>>, <<12658, <<4382>>>>, <<12659, <<4384>>>>, <<12660, <<4386>>>>,
      <<12661, <<4387>>>>, <<12662, <<4391>>>>, <<12663, <<4393>>>>, <<12664, <<4395>>>>,
      <<12665, <<4396>>>>, <<12666, <<4397>>>>, <<12667, <<4398>>>>, <<12668, <<4399>>>>,
      <<12669, <<4402>>>>, <<12670, <<4406>>>>, <<12671, <<4416>>>>, <<12672, <<4423>>>>,
      <<12673, <<4428>>>>, <<12674, <<4593>>>>, <<12675, <<4594>>>>, <<12676, <<4439>>>>,
      <<12677, <<4440>>>>, <<12678, <<4441>>>>, <<12679, <<4484>>>>, <<12680, <<4485>>>>,
      <<12681, <<4488>>>>, <<12682, <<4497>>>>, <<12683, <<4498>>>>, <<12684, <<4500>>>>,
      <<12685, <<4510>>>>, <<12686, <<4513>>>>, <<12690, <<19968>>>>, <<12691, <<20108>>>>,
      <<12692, <<19977>>>>, <<12693, <<22235>>>>, <<12694, <<19978>>>>, <<12695, <<20013>>>>,
      <<12696, <<19979>>>>, <<12697, <<30002>>>>, <<12698, <<20057>>>>, <<12699, <<19993>>>>,
      <<12700, <<19969>>>>, <<12701, <<22825>>>>, <<12702, <<22320>>>>, <<12703, <<20154>>>>,
      <<12800, <<40, 4352, 41>>>>, <<12801, <<40, 4354, 41>>>>, <<12802, <<40, 4355, 41>>>>,
      <<12803, <<40, 4357, 41>>>>, <<12804, <<40, 4358, 41>>>>, <<12805, <<40, 4359, 41>>>>,
      <<12806, <<40, 4361, 41>>>>, <<12807, <<40, 4363, 41>>>>, <<12808, <<40, 4364, 41>>>>,
      <<12809, <<40, 4366, 41>>>>, <<12810, <<40, 4367, 41>>>>, <<12811, <<40, 4368, 41>>>>,
      <<12812, <<40, 4369, 41>>>>, <<12813, <<40, 4370, 41>>>>, <<12814, <<40, 4352, 4449, 41>>>>,
      <<12815, <<40, 4354, 4449, 41>>>>, <<12816, <<40, 4355, 4449, 41>>>>,
      <<12817, <<40, 4357, 4449, 41>>>>, <<12818, <<40, 4358, 4449, 41>>>>,
      <<12819, <<40, 4359, 4449, 41>>>>, <<12820, <<40, 4361, 4449, 41>>>>,
      <<12821, <<40, 4363, 4449, 41>>>>, <<12822, <<40, 4364, 4449, 41>>>>,
      <<12823, <<40, 4366, 4449, 41>>>>, <<12824, <<40, 4367, 4449, 41>>>>,
      <<12825, <<40, 4368, 4449, 41>>>>, <<12826, <<40, 4369, 4449, 41>>>>,
      <<12827, <<40, 4370, 4449, 41>>>>, <<12828, <<40, 4364, 4462, 41>>>>,
      <<12832, <<40, 19968, 41>>>>, <<12833, <<40, 20108, 41>>>>, <<12834, <<40, 19977, 41>>>>,
      <<12835, <<40, 22235, 41>>>>, <<12836, <<40, 20116, 41>>>>, <<12837, <<40, 20845, 41>>>>,
      <<12838, <<40, 19971, 41>>>>, <<12839, <<40, 20843, 41>>>>, <<12840, <<40, 20061, 41>>>>,
      <<12841, <<40, 21313, 41>>>>, <<12842, <<40, 26376, 41>>>>, <<12843, <<40, 28779, 41>>>>,
      <<12844, <<40, 27700, 41>>>>, <<12845, <<40, 26408, 41>>>>, <<12846, <<40, 37329, 41>>>>,
      <<12847, <<40, 22303, 41>>>>, <<12848, <<40, 26085, 41>>>>, <<12849, <<40, 26666, 41>>>>,
      <<12850, <<40, 26377, 41>>>>, <<12851, <<40, 31038, 41>>>>, <<12852, <<40, 21517, 41>>>>,
      <<12853, <<40, 29305, 41>>>>, <<12854, <<40, 36001, 41>>>>, <<12855, <<40, 31069, 41>>>>,
      <<12856, <<40, 21172, 41>>>>, <<12857, <<40, 20195, 41>>>>, <<12858, <<40, 21628, 41>>>>,
      <<12859, <<40, 23398, 41>>>>, <<12860, <<40, 30435, 41>>>>, <<12861, <<40, 20225, 41>>>>,
      <<12862, <<40, 36039, 41>>>>, <<12863, <<40, 21332, 41>>>>, <<12864, <<40, 31085, 41>>>>,
      <<12865, <<40, 20241, 41>>>>, <<12866, <<40, 33258, 41>>>>, <<12867, <<40, 33267, 41>>>>,
      <<12881, <<50, 49>>>>, <<12882, <<50, 50>>>>, <<12883, <<50, 51>>>>, <<12884, <<50, 52>>>>,
      <<12885, <<50, 53>>>>, <<12886, <<50, 54>>>>, <<12887, <<50, 55>>>>, <<12888, <<50, 56>>>>,
      <<12889, <<50, 57>>>>, <<12890, <<51, 48>>>>, <<12891, <<51, 49>>>>, <<12892, <<51, 50>>>>,
      <<12893, <<51, 51>>>>, <<12894, <<51, 52>>>>, <<12895, <<51, 53>>>>, <<12896, <<4352>>>>,
      <<12897, <<4354>>>>, <<12898, <<4355>>>>, <<12899, <<4357>>>>, <<12900, <<4358>>>>,
      <<12901, <<4359>>>>, <<12902, <<4361>>>>, <<12903, <<4363>>>>, <<12904, <<4364>>>>,
      <<12905, <<4366>>>>, <<12906, <<4367>>>>, <<12907, <<4368>>>>, <<12908, <<4369>>>>,
      <<12909, <<4370>>>>, <<12910, <<4352, 4449>>>>, <<12911, <<4354, 4449>>>>,
      <<12912, <<4355, 4449>>>>, <<12913, <<4357, 4449>>>>, <<12914, <<4358, 4449>>>>,
      <<12915, <<4359, 4449>>>>, <<12916, <<4361, 4449>>>>, <<12917, <<4363, 4449>>>>,
      <<12918, <<4364, 4449>>>>, <<12919, <<4366, 4449>>>>, <<12920, <<4367, 4449>>>>,
      <<12921, <<4368, 4449>>>>, <<12922, <<4369, 4449>>>>, <<12923, <<4370, 4449>>>>,
      <<12928, <<19968>>>>, <<12929, <<20108>>>>, <<12930, <<19977>>>>, <<12931, <<22235>>>>,
      <<12932, <<20116>>>>, <<12933, <<20845>>>>, <<12934, <<19971>>>>, <<12935, <<20843>>>>,
      <<12936, <<20061>>>>, <<12937, <<21313>>>>, <<12938, <<26376>>>>, <<12939, <<28779>>>>,
      <<12940, <<27700>>>>, <<12941, <<26408>>>>, <<12942, <<37329>>>>, <<12943, <<22303>>>>,
      <<12944, <<26085>>>>, <<12945, <<26666>>>>, <<12946, <<26377>>>>, <<12947, <<31038>>>>,
      <<12948, <<21517>>>>, <<12949, <<29305>>>>, <<12950, <<36001>>>>, <<12951, <<31069>>>>,
      <<12952, <<21172>>>>, <<12953, <<31192>>>>, <<12954, <<30007>>>>, <<12955, <<22899>>>>,
      <<12956, <<36969>>>>, <<12957, <<20778>>>>, <<12958, <<21360>>>>, <<12959, <<27880>>>>,
      <<12960, <<38917>>>>, <<12961, <<20241>>>>, <<12962, <<20889>>>>, <<12963, <<27491>>>>,
      <<12964, <<19978>>>>, <<12965, <<20013>>>>, <<12966, <<19979>>>>, <<12967, <<24038>>>>,
      <<12968, <<21491>>>>, <<12969, <<21307>>>>, <<12970, <<23447>>>>, <<12971, <<23398>>>>,
      <<12972, <<30435>>>>, <<12973, <<20225>>>>, <<12974, <<36039>>>>, <<12975, <<21332>>>>,
      <<12976, <<22812>>>>, <<12977, <<51, 54>>>>, <<12978, <<51, 55>>>>, <<12979, <<51, 56>>>>,
      <<12980, <<51, 57>>>>, <<12981, <<52, 48>>>>, <<12982, <<52, 49>>>>, <<12983, <<52, 50>>>>,
      <<12984, <<52, 51>>>>, <<12985, <<52, 52>>>>, <<12986, <<52, 53>>>>, <<12987, <<52, 54>>>>,
      <<12988, <<52, 55>>>>, <<12989, <<52, 56>>>>, <<12990, <<52, 57>>>>, <<12991, <<53, 48>>>>,
      <<12992, <<49, 26376>>>>, <<12993, <<50, 26376>>>>, <<12994, <<51, 26376>>>>,
      <<12995, <<52, 26376>>>>, <<12996, <<53, 26376>>>>, <<12997, <<54, 26376>>>>,
      <<12998, <<55, 26376>>>>, <<12999, <<56, 26376>>>>, <<13000, <<57, 26376>>>>,
      <<13001, <<49, 48, 26376>>>>, <<13002, <<49, 49, 26376>>>>, <<13003, <<49, 50, 26376>>>>,
      <<13008, <<12450>>>>, <<13009, <<12452>>>>, <<13010, <<12454>>>>, <<13011, <<12456>>>>,
      <<13012, <<12458>>>>, <<13013, <<12459>>>>, <<13014, <<12461>>>>, <<13015, <<12463>>>>,
      <<13016, <<12465>>>>, <<13017, <<12467>>>>, <<13018, <<12469>>>>, <<13019, <<12471>>>>,
      <<13020, <<12473>>>>, <<13021, <<12475>>>>, <<13022, <<12477>>>>, <<13023, <<12479>>>>,
      <<13024, <<12481>>>>, <<13025, <<12484>>>>, <<13026, <<12486>>>>, <<13027, <<12488>>>>,
      <<13028, <<12490>>>>, <<13029, <<12491>>>>, <<13030, <<12492>>>>, <<13031, <<12493>>>>,
      <<13032, <<12494>>>>, <<13033, <<12495>>>>, <<13034, <<12498>>>>, <<13035, <<12501>>>>,
      <<13036, <<12504>>>>, <<13037, <<12507>>>>, <<13038, <<12510>>>>, <<13039, <<12511>>>>,
      <<13040, <<12512>>>>, <<13041, <<12513>>>>, <<13042, <<12514>>>>, <<13043, <<12516>>>>,
      <<13044, <<12518>>>>, <<13045, <<12520>>>>, <<13046, <<12521>>>>, <<13047, <<12522>>>>,
      <<13048, <<12523>>>>, <<13049, <<12524>>>>, <<13050, <<12525>>>>, <<13051, <<12527>>>>,
      <<13052, <<12528>>>>, <<13053, <<12529>>>>, <<13054, <<12530>>>>,
      <<13056, <<12450, 12495, 12442, 12540, 12488>>>>, <<13057, <<12450, 12523, 12501, 12449>>>>,
      <<13058, <<12450, 12531, 12504, 12442, 12450>>>>, <<13059, <<12450, 12540, 12523>>>>,
      <<13060, <<12452, 12491, 12531, 12463, 12441>>>>, <<13061, <<12452, 12531, 12481>>>>,
      <<13062, <<12454, 12457, 12531>>>>, <<13063, <<12456, 12473, 12463, 12540, 12488, 12441>>>>,
      <<13064, <<12456, 12540, 12459, 12540>>>>, <<13065, <<12458, 12531, 12473>>>>,
      <<13066, <<12458, 12540, 12512>>>>, <<13067, <<12459, 12452, 12522>>>>,
      <<13068, <<12459, 12521, 12483, 12488>>>>, <<13069, <<12459, 12525, 12522, 12540>>>>,
      <<13070, <<12459, 12441, 12525, 12531>>>>, <<13071, <<12459, 12441, 12531, 12510>>>>,
      <<13072, <<12461, 12441, 12459, 12441>>>>, <<13073, <<12461, 12441, 12491, 12540>>>>,
      <<13074, <<12461, 12517, 12522, 12540>>>>,
      <<13075, <<12461, 12441, 12523, 12479, 12441, 12540>>>>, <<13076, <<12461, 12525>>>>,
      <<13077, <<12461, 12525, 12463, 12441, 12521, 12512>>>>,
      <<13078, <<12461, 12525, 12513, 12540, 12488, 12523>>>>,
      <<13079, <<12461, 12525, 12527, 12483, 12488>>>>, <<13080, <<12463, 12441, 12521, 12512>>>>,
      <<13081, <<12463, 12441, 12521, 12512, 12488, 12531>>>>,
      <<13082, <<12463, 12523, 12475, 12441, 12452, 12525>>>>,
      <<13083, <<12463, 12525, 12540, 12493>>>>, <<13084, <<12465, 12540, 12473>>>>,
      <<13085, <<12467, 12523, 12490>>>>, <<13086, <<12467, 12540, 12507, 12442>>>>,
      <<13087, <<12469, 12452, 12463, 12523>>>>, <<13088, <<12469, 12531, 12481, 12540, 12512>>>>,
      <<13089, <<12471, 12522, 12531, 12463, 12441>>>>, <<13090, <<12475, 12531, 12481>>>>,
      <<13091, <<12475, 12531, 12488>>>>, <<13092, <<12479, 12441, 12540, 12473>>>>,
      <<13093, <<12486, 12441, 12471>>>>, <<13094, <<12488, 12441, 12523>>>>,
      <<13095, <<12488, 12531>>>>, <<13096, <<12490, 12494>>>>, <<13097, <<12494, 12483, 12488>>>>,
      <<13098, <<12495, 12452, 12484>>>>, <<13099, <<12495, 12442, 12540, 12475, 12531, 12488>>>>,
      <<13100, <<12495, 12442, 12540, 12484>>>>, <<13101, <<12495, 12441, 12540, 12524, 12523>>>>,
      <<13102, <<12498, 12442, 12450, 12473, 12488, 12523>>>>,
      <<13103, <<12498, 12442, 12463, 12523>>>>, <<13104, <<12498, 12442, 12467>>>>,
      <<13105, <<12498, 12441, 12523>>>>, <<13106, <<12501, 12449, 12521, 12483, 12488, 12441>>>>,
      <<13107, <<12501, 12451, 12540, 12488>>>>,
      <<13108, <<12501, 12441, 12483, 12471, 12455, 12523>>>>, <<13109, <<12501, 12521, 12531>>>>,
      <<13110, <<12504, 12463, 12479, 12540, 12523>>>>, <<13111, <<12504, 12442, 12477>>>>,
      <<13112, <<12504, 12442, 12491, 12498>>>>, <<13113, <<12504, 12523, 12484>>>>,
      <<13114, <<12504, 12442, 12531, 12473>>>>, <<13115, <<12504, 12442, 12540, 12471, 12441>>>>,
      <<13116, <<12504, 12441, 12540, 12479>>>>, <<13117, <<12507, 12442, 12452, 12531, 12488>>>>,
      <<13118, <<12507, 12441, 12523, 12488>>>>, <<13119, <<12507, 12531>>>>,
      <<13120, <<12507, 12442, 12531, 12488, 12441>>>>, <<13121, <<12507, 12540, 12523>>>>,
      <<13122, <<12507, 12540, 12531>>>>, <<13123, <<12510, 12452, 12463, 12525>>>>,
      <<13124, <<12510, 12452, 12523>>>>, <<13125, <<12510, 12483, 12495>>>>,
      <<13126, <<12510, 12523, 12463>>>>, <<13127, <<12510, 12531, 12471, 12519, 12531>>>>,
      <<13128, <<12511, 12463, 12525, 12531>>>>, <<13129, <<12511, 12522>>>>,
      <<13130, <<12511, 12522, 12495, 12441, 12540, 12523>>>>, <<13131, <<12513, 12459, 12441>>>>,
      <<13132, <<12513, 12459, 12441, 12488, 12531>>>>, <<13133, <<12513, 12540, 12488, 12523>>>>,
      <<13134, <<12516, 12540, 12488, 12441>>>>, <<13135, <<12516, 12540, 12523>>>>,
      <<13136, <<12518, 12450, 12531>>>>, <<13137, <<12522, 12483, 12488, 12523>>>>,
      <<13138, <<12522, 12521>>>>, <<13139, <<12523, 12498, 12442, 12540>>>>,
      <<13140, <<12523, 12540, 12501, 12441, 12523>>>>, <<13141, <<12524, 12512>>>>,
      <<13142, <<12524, 12531, 12488, 12465, 12441, 12531>>>>, <<13143, <<12527, 12483, 12488>>>>,
      <<13144, <<48, 28857>>>>, <<13145, <<49, 28857>>>>, <<13146, <<50, 28857>>>>,
      <<13147, <<51, 28857>>>>, <<13148, <<52, 28857>>>>, <<13149, <<53, 28857>>>>,
      <<13150, <<54, 28857>>>>, <<13151, <<55, 28857>>>>, <<13152, <<56, 28857>>>>,
      <<13153, <<57, 28857>>>>, <<13154, <<49, 48, 28857>>>>, <<13155, <<49, 49, 28857>>>>,
      <<13156, <<49, 50, 28857>>>>, <<13157, <<49, 51, 28857>>>>, <<13158, <<49, 52, 28857>>>>,
      <<13159, <<49, 53, 28857>>>>, <<13160, <<49, 54, 28857>>>>, <<13161, <<49, 55, 28857>>>>,
      <<13162, <<49, 56, 28857>>>>, <<13163, <<49, 57, 28857>>>>, <<13164, <<50, 48, 28857>>>>,
      <<13165, <<50, 49, 28857>>>>, <<13166, <<50, 50, 28857>>>>, <<13167, <<50, 51, 28857>>>>,
      <<13168, <<50, 52, 28857>>>>, <<13169, <<104, 80, 97>>>>, <<13170, <<100, 97>>>>,
      <<13171, <<65, 85>>>>, <<13172, <<98, 97, 114>>>>, <<13173, <<111, 86>>>>,
      <<13174, <<112, 99>>>>, <<13179, <<24179, 25104>>>>, <<13180, <<26157, 21644>>>>,
      <<13181, <<22823, 27491>>>>, <<13182, <<26126, 27835>>>>,
      <<13183, <<26666, 24335, 20250, 31038>>>>, <<13184, <<112, 65>>>>, <<13185, <<110, 65>>>>,
      <<13186, <<956, 65>>>>, <<13187, <<109, 65>>>>, <<13188, <<107, 65>>>>, <<13189, <<75, 66>>>>,
      <<13190, <<77, 66>>>>, <<13191, <<71, 66>>>>, <<13192, <<99, 97, 108>>>>,
      <<13193, <<107, 99, 97, 108>>>>, <<13194, <<112, 70>>>>, <<13195, <<110, 70>>>>,
      <<13196, <<956, 70>>>>, <<13197, <<956, 103>>>>, <<13198, <<109, 103>>>>,
      <<13199, <<107, 103>>>>, <<13200, <<72, 122>>>>, <<13201, <<107, 72, 122>>>>,
      <<13202, <<77, 72, 122>>>>, <<13203, <<71, 72, 122>>>>, <<13204, <<84, 72, 122>>>>,
      <<13205, <<956, 108>>>>, <<13206, <<109, 108>>>>, <<13207, <<100, 108>>>>,
      <<13208, <<107, 108>>>>, <<13209, <<102, 109>>>>, <<13210, <<110, 109>>>>,
      <<13211, <<956, 109>>>>, <<13212, <<109, 109>>>>, <<13213, <<99, 109>>>>,
      <<13214, <<107, 109>>>>, <<13215, <<109, 109, 50>>>>, <<13216, <<99, 109, 50>>>>,
      <<13217, <<109, 50>>>>, <<13218, <<107, 109, 50>>>>, <<13219, <<109, 109, 51>>>>,
      <<13220, <<99, 109, 51>>>>, <<13221, <<109, 51>>>>, <<13222, <<107, 109, 51>>>>,
      <<13223, <<109, 8725, 115>>>>, <<13224, <<109, 8725, 115, 50>>>>, <<13225, <<80, 97>>>>,
      <<13226, <<107, 80, 97>>>>, <<13227, <<77, 80, 97>>>>, <<13228, <<71, 80, 97>>>>,
      <<13229, <<114, 97, 100>>>>, <<13230, <<114, 97, 100, 8725, 115>>>>,
      <<13231, <<114, 97, 100, 8725, 115, 50>>>>, <<13232, <<112, 115>>>>, <<13233, <<110, 115>>>>,
      <<13234, <<956, 115>>>>, <<13235, <<109, 115>>>>, <<13236, <<112, 86>>>>,
      <<13237, <<110, 86>>>>, <<13238, <<956, 86>>>>, <<13239, <<109, 86>>>>, <<13240, <<107, 86>>>>,
      <<13241, <<77, 86>>>>, <<13242, <<112, 87>>>>, <<13243, <<110, 87>>>>, <<13244, <<956, 87>>>>,
      <<13245, <<109, 87>>>>, <<13246, <<107, 87>>>>, <<13247, <<77, 87>>>>, <<13248, <<107, 937>>>>,
      <<13249, <<77, 937>>>>, <<13250, <<97, 46, 109, 46>>>>, <<13251, <<66, 113>>>>,
      <<13252, <<99, 99>>>>, <<13253, <<99, 100>>>>, <<13254, <<67, 8725, 107, 103>>>>,
      <<13255, <<67, 111, 46>>>>, <<13256, <<100, 66>>>>, <<13257, <<71, 121>>>>,
      <<13258, <<104, 97>>>>, <<13259, <<72, 80>>>>, <<13260, <<105, 110>>>>, <<13261, <<75, 75>>>>,
      <<13262, <<75, 77>>>>, <<13263, <<107, 116>>>>, <<13264, <<108, 109>>>>,
      <<13265, <<108, 110>>>>, <<13266, <<108, 111, 103>>>>, <<13267, <<108, 120>>>>,
      <<13268, <<109, 98>>>>, <<13269, <<109, 105, 108>>>>, <<13270, <<109, 111, 108>>>>,
      <<13271, <<80, 72>>>>, <<13272, <<112, 46, 109, 46>>>>, <<13273, <<80, 80, 77>>>>,
      <<13274, <<80, 82>>>>, <<13275, <<115, 114>>>>, <<13276, <<83, 118>>>>, <<13277, <<87, 98>>>>,
      <<13280, <<49, 26085>>>>, <<13281, <<50, 26085>>>>, <<13282, <<51, 26085>>>>,
      <<13283, <<52, 26085>>>>, <<13284, <<53, 26085>>>>, <<13285, <<54, 26085>>>>,
      <<13286, <<55, 26085>>>>, <<13287, <<56, 26085>>>>, <<13288, <<57, 26085>>>>,
      <<13289, <<49, 48, 26085>>>>, <<13290, <<49, 49, 26085>>>>, <<13291, <<49, 50, 26085>>>>,
      <<13292, <<49, 51, 26085>>>>, <<13293, <<49, 52, 26085>>>>, <<13294, <<49, 53, 26085>>>>,
      <<13295, <<49, 54, 26085>>>>, <<13296, <<49, 55, 26085>>>>, <<13297, <<49, 56, 26085>>>>,
      <<13298, <<49, 57, 26085>>>>, <<13299, <<50, 48, 26085>>>>, <<13300, <<50, 49, 26085>>>>,
      <<13301, <<50, 50, 26085>>>>, <<13302, <<50, 51, 26085>>>>, <<13303, <<50, 52, 26085>>>>,
      <<13304, <<50, 53, 26085>>>>, <<13305, <<50, 54, 26085>>>>, <<13306, <<50, 55, 26085>>>>,
      <<13307, <<50, 56, 26085>>>>, <<13308, <<50, 57, 26085>>>>, <<13309, <<51, 48, 26085>>>>,
      <<13310, <<51, 49, 26085>>>>, <<63744, <<35912>>>>, <<63745, <<26356>>>>, <<63746, <<36554>>>>,
      <<63747, <<36040>>>>, <<63748, <<28369>>>>, <<63749, <<20018>>>>, <<63750, <<21477>>>>,
      <<63751, <<40860>>>>, <<63752, <<40860>>>>, <<63753, <<22865>>>>, <<63754, <<37329>>>>,
      <<63755, <<21895>>>>, <<63756, <<22856>>>>, <<63757, <<25078>>>>, <<63758, <<30313>>>>,
      <<63759, <<32645>>>>, <<63760, <<34367>>>>, <<63761, <<34746>>>>, <<63762, <<35064>>>>,
      <<63763, <<37007>>>>, <<63764, <<27138>>>>, <<63765, <<27931>>>>, <<63766, <<28889>>>>,
      <<63767, <<29662>>>>, <<63768, <<33853>>>>, <<63769, <<37226>>>>, <<63770, <<39409>>>>,
      <<63771, <<20098>>>>, <<63772, <<21365>>>>, <<63773, <<27396>>>>, <<63774, <<29211>>>>,
      <<63775, <<34349>>>>, <<63776, <<40478>>>>, <<63777, <<23888>>>>, <<63778, <<28651>>>>,
      <<63779, <<34253>>>>, <<63780, <<35172>>>>, <<63781, <<25289>>>>, <<63782, <<33240>>>>,
      <<63783, <<34847>>>>, <<63784, <<24266>>>>, <<63785, <<26391>>>>, <<63786, <<28010>>>>,
      <<63787, <<29436>>>>, <<63788, <<37070>>>>, <<63789, <<20358>>>>, <<63790, <<20919>>>>,
      <<63791, <<21214>>>>, <<63792, <<25796>>>>, <<63793, <<27347>>>>, <<63794, <<29200>>>>,
      <<63795, <<30439>>>>, <<63796, <<32769>>>>, <<63797, <<34310>>>>, <<63798, <<34396>>>>,
      <<63799, <<36335>>>>, <<63800, <<38706>>>>, <<63801, <<39791>>>>, <<63802, <<40442>>>>,
      <<63803, <<30860>>>>, <<63804, <<31103>>>>, <<63805, <<32160>>>>, <<63806, <<33737>>>>,
      <<63807, <<37636>>>>, <<63808, <<40575>>>>, <<63809, <<35542>>>>, <<63810, <<22751>>>>,
      <<63811, <<24324>>>>, <<63812, <<31840>>>>, <<63813, <<32894>>>>, <<63814, <<29282>>>>,
      <<63815, <<30922>>>>, <<63816, <<36034>>>>, <<63817, <<38647>>>>, <<63818, <<22744>>>>,
      <<63819, <<23650>>>>, <<63820, <<27155>>>>, <<63821, <<28122>>>>, <<63822, <<28431>>>>,
      <<63823, <<32047>>>>, <<63824, <<32311>>>>, <<63825, <<38475>>>>, <<63826, <<21202>>>>,
      <<63827, <<32907>>>>, <<63828, <<20956>>>>, <<63829, <<20940>>>>, <<63830, <<31260>>>>,
      <<63831, <<32190>>>>, <<63832, <<33777>>>>, <<63833, <<38517>>>>, <<63834, <<35712>>>>,
      <<63835, <<25295>>>>, <<63836, <<27138>>>>, <<63837, <<35582>>>>, <<63838, <<20025>>>>,
      <<63839, <<23527>>>>, <<63840, <<24594>>>>, <<63841, <<29575>>>>, <<63842, <<30064>>>>,
      <<63843, <<21271>>>>, <<63844, <<30971>>>>, <<63845, <<20415>>>>, <<63846, <<24489>>>>,
      <<63847, <<19981>>>>, <<63848, <<27852>>>>, <<63849, <<25976>>>>, <<63850, <<32034>>>>,
      <<63851, <<21443>>>>, <<63852, <<22622>>>>, <<63853, <<30465>>>>, <<63854, <<33865>>>>,
      <<63855, <<35498>>>>, <<63856, <<27578>>>>, <<63857, <<36784>>>>, <<63858, <<27784>>>>,
      <<63859, <<25342>>>>, <<63860, <<33509>>>>, <<63861, <<25504>>>>, <<63862, <<30053>>>>,
      <<63863, <<20142>>>>, <<63864, <<20841>>>>, <<63865, <<20937>>>>, <<63866, <<26753>>>>,
      <<63867, <<31975>>>>, <<63868, <<33391>>>>, <<63869, <<35538>>>>, <<63870, <<37327>>>>,
      <<63871, <<21237>>>>, <<63872, <<21570>>>>, <<63873, <<22899>>>>, <<63874, <<24300>>>>,
      <<63875, <<26053>>>>, <<63876, <<28670>>>>, <<63877, <<31018>>>>, <<63878, <<38317>>>>,
      <<63879, <<39530>>>>, <<63880, <<40599>>>>, <<63881, <<40654>>>>, <<63882, <<21147>>>>,
      <<63883, <<26310>>>>, <<63884, <<27511>>>>, <<63885, <<36706>>>>, <<63886, <<24180>>>>,
      <<63887, <<24976>>>>, <<63888, <<25088>>>>, <<63889, <<25754>>>>, <<63890, <<28451>>>>,
      <<63891, <<29001>>>>, <<63892, <<29833>>>>, <<63893, <<31178>>>>, <<63894, <<32244>>>>,
      <<63895, <<32879>>>>, <<63896, <<36646>>>>, <<63897, <<34030>>>>, <<63898, <<36899>>>>,
      <<63899, <<37706>>>>, <<63900, <<21015>>>>, <<63901, <<21155>>>>, <<63902, <<21693>>>>,
      <<63903, <<28872>>>>, <<63904, <<35010>>>>, <<63905, <<35498>>>>, <<63906, <<24265>>>>,
      <<63907, <<24565>>>>, <<63908, <<25467>>>>, <<63909, <<27566>>>>, <<63910, <<31806>>>>,
      <<63911, <<29557>>>>, <<63912, <<20196>>>>, <<63913, <<22265>>>>, <<63914, <<23527>>>>,
      <<63915, <<23994>>>>, <<63916, <<24604>>>>, <<63917, <<29618>>>>, <<63918, <<29801>>>>,
      <<63919, <<32666>>>>, <<63920, <<32838>>>>, <<63921, <<37428>>>>, <<63922, <<38646>>>>,
      <<63923, <<38728>>>>, <<63924, <<38936>>>>, <<63925, <<20363>>>>, <<63926, <<31150>>>>,
      <<63927, <<37300>>>>, <<63928, <<38584>>>>, <<63929, <<24801>>>>, <<63930, <<20102>>>>,
      <<63931, <<20698>>>>, <<63932, <<23534>>>>, <<63933, <<23615>>>>, <<63934, <<26009>>>>,
      <<63935, <<27138>>>>, <<63936, <<29134>>>>, <<63937, <<30274>>>>, <<63938, <<34044>>>>,
      <<63939, <<36988>>>>, <<63940, <<40845>>>>, <<63941, <<26248>>>>, <<63942, <<38446>>>>,
      <<63943, <<21129>>>>, <<63944, <<26491>>>>, <<63945, <<26611>>>>, <<63946, <<27969>>>>,
      <<63947, <<28316>>>>, <<63948, <<29705>>>>, <<63949, <<30041>>>>, <<63950, <<30827>>>>,
      <<63951, <<32016>>>>, <<63952, <<39006>>>>, <<63953, <<20845>>>>, <<63954, <<25134>>>>,
      <<63955, <<38520>>>>, <<63956, <<20523>>>>, <<63957, <<23833>>>>, <<63958, <<28138>>>>,
      <<63959, <<36650>>>>, <<63960, <<24459>>>>, <<63961, <<24900>>>>, <<63962, <<26647>>>>,
      <<63963, <<29575>>>>, <<63964, <<38534>>>>, <<63965, <<21033>>>>, <<63966, <<21519>>>>,
      <<63967, <<23653>>>>, <<63968, <<26131>>>>, <<63969, <<26446>>>>, <<63970, <<26792>>>>,
      <<63971, <<27877>>>>, <<63972, <<29702>>>>, <<63973, <<30178>>>>, <<63974, <<32633>>>>,
      <<63975, <<35023>>>>, <<63976, <<35041>>>>, <<63977, <<37324>>>>, <<63978, <<38626>>>>,
      <<63979, <<21311>>>>, <<63980, <<28346>>>>, <<63981, <<21533>>>>, <<63982, <<29136>>>>,
      <<63983, <<29848>>>>, <<63984, <<34298>>>>, <<63985, <<38563>>>>, <<63986, <<40023>>>>,
      <<63987, <<40607>>>>, <<63988, <<26519>>>>, <<63989, <<28107>>>>, <<63990, <<33256>>>>,
      <<63991, <<31435>>>>, <<63992, <<31520>>>>, <<63993, <<31890>>>>, <<63994, <<29376>>>>,
      <<63995, <<28825>>>>, <<63996, <<35672>>>>, <<63997, <<20160>>>>, <<63998, <<33590>>>>,
      <<63999, <<21050>>>>, <<64000, <<20999>>>>, <<64001, <<24230>>>>, <<64002, <<25299>>>>,
      <<64003, <<31958>>>>, <<64004, <<23429>>>>, <<64005, <<27934>>>>, <<64006, <<26292>>>>,
      <<64007, <<36667>>>>, <<64008, <<34892>>>>, <<64009, <<38477>>>>, <<64010, <<35211>>>>,
      <<64011, <<24275>>>>, <<64012, <<20800>>>>, <<64013, <<21952>>>>, <<64016, <<22618>>>>,
      <<64018, <<26228>>>>, <<64021, <<20958>>>>, <<64022, <<29482>>>>, <<64023, <<30410>>>>,
      <<64024, <<31036>>>>, <<64025, <<31070>>>>, <<64026, <<31077>>>>, <<64027, <<31119>>>>,
      <<64028, <<38742>>>>, <<64029, <<31934>>>>, <<64030, <<32701>>>>, <<64032, <<34322>>>>,
      <<64034, <<35576>>>>, <<64037, <<36920>>>>, <<64038, <<37117>>>>, <<64042, <<39151>>>>,
      <<64043, <<39164>>>>, <<64044, <<39208>>>>, <<64045, <<40372>>>>, <<64048, <<20398>>>>,
      <<64049, <<20711>>>>, <<64050, <<20813>>>>, <<64051, <<21193>>>>, <<64052, <<21220>>>>,
      <<64053, <<21329>>>>, <<64054, <<21917>>>>, <<64055, <<22022>>>>, <<64056, <<22120>>>>,
      <<64057, <<22592>>>>, <<64058, <<22696>>>>, <<64059, <<23652>>>>, <<64060, <<23662>>>>,
      <<64061, <<24724>>>>, <<64062, <<24936>>>>, <<64063, <<24974>>>>, <<64064, <<25074>>>>,
      <<64065, <<25935>>>>, <<64066, <<26082>>>>, <<64067, <<26257>>>>, <<64068, <<26757>>>>,
      <<64069, <<28023>>>>, <<64070, <<28186>>>>, <<64071, <<28450>>>>, <<64072, <<29038>>>>,
      <<64073, <<29227>>>>, <<64074, <<29730>>>>, <<64075, <<30865>>>>, <<64076, <<31038>>>>,
      <<64077, <<31049>>>>, <<64078, <<31048>>>>, <<64079, <<31056>>>>, <<64080, <<31062>>>>,
      <<64081, <<31069>>>>, <<64082, <<31117>>>>, <<64083, <<31118>>>>, <<64084, <<31296>>>>,
      <<64085, <<31361>>>>, <<64086, <<31680>>>>, <<64087, <<32244>>>>, <<64088, <<32265>>>>,
      <<64089, <<32321>>>>, <<64090, <<32626>>>>, <<64091, <<32773>>>>, <<64092, <<33261>>>>,
      <<64093, <<33401>>>>, <<64094, <<33401>>>>, <<64095, <<33879>>>>, <<64096, <<35088>>>>,
      <<64097, <<35222>>>>, <<64098, <<35585>>>>, <<64099, <<35641>>>>, <<64100, <<36051>>>>,
      <<64101, <<36104>>>>, <<64102, <<36790>>>>, <<64103, <<36920>>>>, <<64104, <<38627>>>>,
      <<64105, <<38911>>>>, <<64106, <<38971>>>>, <<64256, <<102, 102>>>>, <<64257, <<102, 105>>>>,
      <<64258, <<102, 108>>>>, <<64259, <<102, 102, 105>>>>, <<64260, <<102, 102, 108>>>>,
      <<64261, <<115, 116>>>>, <<64262, <<115, 116>>>>, <<64275, <<1396, 1398>>>>,
      <<64276, <<1396, 1381>>>>, <<64277, <<1396, 1387>>>>, <<64278, <<1406, 1398>>>>,
      <<64279, <<1396, 1389>>>>, <<64285, <<1497, 1460>>>>, <<64287, <<1522, 1463>>>>,
      <<64288, <<1506>>>>, <<64289, <<1488>>>>, <<64290, <<1491>>>>, <<64291, <<1492>>>>,
      <<64292, <<1499>>>>, <<64293, <<1500>>>>, <<64294, <<1501>>>>, <<64295, <<1512>>>>,
      <<64296, <<1514>>>>, <<64297, <<43>>>>, <<64298, <<1513, 1473>>>>, <<64299, <<1513, 1474>>>>,
      <<64300, <<1513, 1468, 1473>>>>, <<64301, <<1513, 1468, 1474>>>>, <<64302, <<1488, 1463>>>>,
      <<64303, <<1488, 1464>>>>, <<64304, <<1488, 1468>>>>, <<64305, <<1489, 1468>>>>,
      <<64306, <<1490, 1468>>>>, <<64307, <<1491, 1468>>>>, <<64308, <<1492, 1468>>>>,
      <<64309, <<1493, 1468>>>>, <<64310, <<1494, 1468>>>>, <<64312, <<1496, 1468>>>>,
      <<64313, <<1497, 1468>>>>, <<64314, <<1498, 1468>>>>, <<64315, <<1499, 1468>>>>,
      <<64316, <<1500, 1468>>>>, <<64318, <<1502, 1468>>>>, <<64320, <<1504, 1468>>>>,
      <<64321, <<1505, 1468>>>>, <<64323, <<1507, 1468>>>>, <<64324, <<1508, 1468>>>>,
      <<64326, <<1510, 1468>>>>, <<64327, <<1511, 1468>>>>, <<64328, <<1512, 1468>>>>,
      <<64329, <<1513, 1468>>>>, <<64330, <<1514, 1468>>>>, <<64331, <<1493, 1465>>>>,
      <<64332, <<1489, 1471>>>>, <<64333, <<1499, 1471>>>>, <<64334, <<1508, 1471>>>>,
      <<64335, <<1488, 1500>>>>, <<64336, <<1649>>>>, <<64337, <<1649>>>>, <<64338, <<1659>>>>,
      <<64339, <<1659>>>>, <<64340, <<1659>>>>, <<64341, <<1659>>>>, <<64342, <<1662>>>>,
      <<64343, <<1662>>>>, <<64344, <<1662>>>>, <<64345, <<1662>>>>, <<64346, <<1664>>>>,
      <<64347, <<1664>>>>, <<64348, <<1664>>>>, <<64349, <<1664>>>>, <<64350, <<1658>>>>,
      <<64351, <<1658>>>>, <<64352, <<1658>>>>, <<64353, <<1658>>>>, <<64354, <<1663>>>>,
      <<64355, <<1663>>>>, <<64356, <<1663>>>>, <<64357, <<1663>>>>, <<64358, <<1657>>>>,
      <<64359, <<1657>>>>, <<64360, <<1657>>>>, <<64361, <<1657>>>>, <<64362, <<1700>>>>,
      <<64363, <<1700>>>>, <<64364, <<1700>>>>, <<64365, <<1700>>>>, <<64366, <<1702>>>>,
      <<64367, <<1702>>>>, <<64368, <<1702>>>>, <<64369, <<1702>>>>, <<64370, <<1668>>>>,
      <<64371, <<1668>>>>, <<64372, <<1668>>>>, <<64373, <<1668>>>>, <<64374, <<1667>>>>,
      <<64375, <<1667>>>>, <<64376, <<1667>>>>, <<64377, <<1667>>>>, <<64378, <<1670>>>>,
      <<64379, <<1670>>>>, <<64380, <<1670>>>>, <<64381, <<1670>>>>, <<64382, <<1671>>>>,
      <<64383, <<1671>>>>, <<64384, <<1671>>>>, <<64385, <<1671>>>>, <<64386, <<1677>>>>,
      <<64387, <<1677>>>>, <<64388, <<1676>>>>, <<64389, <<1676>>>>, <<64390, <<1678>>>>,
      <<64391, <<1678>>>>, <<64392, <<1672>>>>, <<64393, <<1672>>>>, <<64394, <<1688>>>>,
      <<64395, <<1688>>>>, <<64396, <<1681>>>>, <<64397, <<1681>>>>, <<64398, <<1705>>>>,
      <<64399, <<1705>>>>, <<64400, <<1705>>>>, <<64401, <<1705>>>>, <<64402, <<1711>>>>,
      <<64403, <<1711>>>>, <<64404, <<1711>>>>, <<64405, <<1711>>>>, <<64406, <<1715>>>>,
      <<64407, <<1715>>>>, <<64408, <<1715>>>>, <<64409, <<1715>>>>, <<64410, <<1713>>>>,
      <<64411, <<1713>>>>, <<64412, <<1713>>>>, <<64413, <<1713>>>>, <<64414, <<1722>>>>,
      <<64415, <<1722>>>>, <<64416, <<1723>>>>, <<64417, <<1723>>>>, <<64418, <<1723>>>>,
      <<64419, <<1723>>>>, <<64420, <<1749, 1620>>>>, <<64421, <<1749, 1620>>>>, <<64422, <<1729>>>>,
      <<64423, <<1729>>>>, <<64424, <<1729>>>>, <<64425, <<1729>>>>, <<64426, <<1726>>>>,
      <<64427, <<1726>>>>, <<64428, <<1726>>>>, <<64429, <<1726>>>>, <<64430, <<1746>>>>,
      <<64431, <<1746>>>>, <<64432, <<1746, 1620>>>>, <<64433, <<1746, 1620>>>>, <<64467, <<1709>>>>,
      <<64468, <<1709>>>>, <<64469, <<1709>>>>, <<64470, <<1709>>>>, <<64471, <<1735>>>>,
      <<64472, <<1735>>>>, <<64473, <<1734>>>>, <<64474, <<1734>>>>, <<64475, <<1736>>>>,
      <<64476, <<1736>>>>, <<64477, <<1735, 1652>>>>, <<64478, <<1739>>>>, <<64479, <<1739>>>>,
      <<64480, <<1733>>>>, <<64481, <<1733>>>>, <<64482, <<1737>>>>, <<64483, <<1737>>>>,
      <<64484, <<1744>>>>, <<64485, <<1744>>>>, <<64486, <<1744>>>>, <<64487, <<1744>>>>,
      <<64488, <<1609>>>>, <<64489, <<1609>>>>, <<64490, <<1610, 1620, 1575>>>>,
      <<64491, <<1610, 1620, 1575>>>>, <<64492, <<1610, 1620, 1749>>>>,
      <<64493, <<1610, 1620, 1749>>>>, <<64494, <<1610, 1620, 1608>>>>,
      <<64495, <<1610, 1620, 1608>>>>, <<64496, <<1610, 1620, 1735>>>>,
      <<64497, <<1610, 1620, 1735>>>>, <<64498, <<1610, 1620, 1734>>>>,
      <<64499, <<1610, 1620, 1734>>>>, <<64500, <<1610, 1620, 1736>>>>,
      <<64501, <<1610, 1620, 1736>>>>, <<64502, <<1610, 1620, 1744>>>>,
      <<64503, <<1610, 1620, 1744>>>>, <<64504, <<1610, 1620, 1744>>>>,
      <<64505, <<1610, 1620, 1609>>>>, <<64506, <<1610, 1620, 1609>>>>,
      <<64507, <<1610, 1620, 1609>>>>, <<64508, <<1740>>>>, <<64509, <<1740>>>>, <<64510, <<1740>>>>,
      <<64511, <<1740>>>>, <<64512, <<1610, 1620, 1580>>>>, <<64513, <<1610, 1620, 1581>>>>,
      <<64514, <<1610, 1620, 1605>>>>, <<64515, <<1610, 1620, 1609>>>>,
      <<64516, <<1610, 1620, 1610>>>>, <<64517, <<1576, 1580>>>>, <<64518, <<1576, 1581>>>>,
      <<64519, <<1576, 1582>>>>, <<64520, <<1576, 1605>>>>, <<64521, <<1576, 1609>>>>,
      <<64522, <<1576, 1610>>>>, <<64523, <<1578, 1580>>>>, <<64524, <<1578, 1581>>>>,
      <<64525, <<1578, 1582>>>>, <<64526, <<1578, 1605>>>>, <<64527, <<1578, 1609>>>>,
      <<64528, <<1578, 1610>>>>, <<64529, <<1579, 1580>>>>, <<64530, <<1579, 1605>>>>,
      <<64531, <<1579, 1609>>>>, <<64532, <<1579, 1610>>>>, <<64533, <<1580, 1581>>>>,
      <<64534, <<1580, 1605>>>>, <<64535, <<1581, 1580>>>>, <<64536, <<1581, 1605>>>>,
      <<64537, <<1582, 1580>>>>, <<64538, <<1582, 1581>>>>, <<64539, <<1582, 1605>>>>,
      <<64540, <<1587, 1580>>>>, <<64541, <<1587, 1581>>>>, <<64542, <<1587, 1582>>>>,
      <<64543, <<1587, 1605>>>>, <<64544, <<1589, 1581>>>>, <<64545, <<1589, 1605>>>>,
      <<64546, <<1590, 1580>>>>, <<64547, <<1590, 1581>>>>, <<64548, <<1590, 1582>>>>,
      <<64549, <<1590, 1605>>>>, <<64550, <<1591, 1581>>>>, <<64551, <<1591, 1605>>>>,
      <<64552, <<1592, 1605>>>>, <<64553, <<1593, 1580>>>>, <<64554, <<1593, 1605>>>>,
      <<64555, <<1594, 1580>>>>, <<64556, <<1594, 1605>>>>, <<64557, <<1601, 1580>>>>,
      <<64558, <<1601, 1581>>>>, <<64559, <<1601, 1582>>>>, <<64560, <<1601, 1605>>>>,
      <<64561, <<1601, 1609>>>>, <<64562, <<1601, 1610>>>>, <<64563, <<1602, 1581>>>>,
      <<64564, <<1602, 1605>>>>, <<64565, <<1602, 1609>>>>, <<64566, <<1602, 1610>>>>,
      <<64567, <<1603, 1575>>>>, <<64568, <<1603, 1580>>>>, <<64569, <<1603, 1581>>>>,
      <<64570, <<1603, 1582>>>>, <<64571, <<1603, 1604>>>>, <<64572, <<1603, 1605>>>>,
      <<64573, <<1603, 1609>>>>, <<64574, <<1603, 1610>>>>, <<64575, <<1604, 1580>>>>,
      <<64576, <<1604, 1581>>>>, <<64577, <<1604, 1582>>>>, <<64578, <<1604, 1605>>>>,
      <<64579, <<1604, 1609>>>>, <<64580, <<1604, 1610>>>>, <<64581, <<1605, 1580>>>>,
      <<64582, <<1605, 1581>>>>, <<64583, <<1605, 1582>>>>, <<64584, <<1605, 1605>>>>,
      <<64585, <<1605, 1609>>>>, <<64586, <<1605, 1610>>>>, <<64587, <<1606, 1580>>>>,
      <<64588, <<1606, 1581>>>>, <<64589, <<1606, 1582>>>>, <<64590, <<1606, 1605>>>>,
      <<64591, <<1606, 1609>>>>, <<64592, <<1606, 1610>>>>, <<64593, <<1607, 1580>>>>,
      <<64594, <<1607, 1605>>>>, <<64595, <<1607, 1609>>>>, <<64596, <<1607, 1610>>>>,
      <<64597, <<1610, 1580>>>>, <<64598, <<1610, 1581>>>>, <<64599, <<1610, 1582>>>>,
      <<64600, <<1610, 1605>>>>, <<64601, <<1610, 1609>>>>, <<64602, <<1610, 1610>>>>,
      <<64603, <<1584, 1648>>>>, <<64604, <<1585, 1648>>>>, <<64605, <<1609, 1648>>>>,
      <<64606, <<32, 1612, 1617>>>>, <<64607, <<32, 1613, 1617>>>>, <<64608, <<32, 1614, 1617>>>>,
      <<64609, <<32, 1615, 1617>>>>, <<64610, <<32, 1616, 1617>>>>, <<64611, <<32, 1617, 1648>>>>,
      <<64612, <<1610, 1620, 1585>>>>, <<64613, <<1610, 1620, 1586>>>>,
      <<64614, <<1610, 1620, 1605>>>>, <<64615, <<1610, 1620, 1606>>>>,
      <<64616, <<1610, 1620, 1609>>>>, <<64617, <<1610, 1620, 1610>>>>, <<64618, <<1576, 1585>>>>,
      <<64619, <<1576, 1586>>>>, <<64620, <<1576, 1605>>>>, <<64621, <<1576, 1606>>>>,
      <<64622, <<1576, 1609>>>>, <<64623, <<1576, 1610>>>>, <<64624, <<1578, 1585>>>>,
      <<64625, <<1578, 1586>>>>, <<64626, <<1578, 1605>>>>, <<64627, <<1578, 1606>>>>,
      <<64628, <<1578, 1609>>>>, <<64629, <<1578, 1610>>>>, <<64630, <<1579, 1585>>>>,
      <<64631, <<1579, 1586>>>>, <<64632, <<1579, 1605>>>>, <<64633, <<1579, 1606>>>>,
      <<64634, <<1579, 1609>>>>, <<64635, <<1579, 1610>>>>, <<64636, <<1601, 1609>>>>,
      <<64637, <<1601, 1610>>>>, <<64638, <<1602, 1609>>>>, <<64639, <<1602, 1610>>>>,
      <<64640, <<1603, 1575>>>>, <<64641, <<1603, 1604>>>>, <<64642, <<1603, 1605>>>>,
      <<64643, <<1603, 1609>>>>, <<64644, <<1603, 1610>>>>, <<64645, <<1604, 1605>>>>,
      <<64646, <<1604, 1609>>>>, <<64647, <<1604, 1610>>>>, <<64648, <<1605, 1575>>>>,
      <<64649, <<1605, 1605>>>>, <<64650, <<1606, 1585>>>>, <<64651, <<1606, 1586>>>>,
      <<64652, <<1606, 1605>>>>, <<64653, <<1606, 1606>>>>, <<64654, <<1606, 1609>>>>,
      <<64655, <<1606, 1610>>>>, <<64656, <<1609, 1648>>>>, <<64657, <<1610, 1585>>>>,
      <<64658, <<1610, 1586>>>>, <<64659, <<1610, 1605>>>>, <<64660, <<1610, 1606>>>>,
      <<64661, <<1610, 1609>>>>, <<64662, <<1610, 1610>>>>, <<64663, <<1610, 1620, 1580>>>>,
      <<64664, <<1610, 1620, 1581>>>>, <<64665, <<1610, 1620, 1582>>>>,
      <<64666, <<1610, 1620, 1605>>>>, <<64667, <<1610, 1620, 1607>>>>, <<64668, <<1576, 1580>>>>,
      <<64669, <<1576, 1581>>>>, <<64670, <<1576, 1582>>>>, <<64671, <<1576, 1605>>>>,
      <<64672, <<1576, 1607>>>>, <<64673, <<1578, 1580>>>>, <<64674, <<1578, 1581>>>>,
      <<64675, <<1578, 1582>>>>, <<64676, <<1578, 1605>>>>, <<64677, <<1578, 1607>>>>,
      <<64678, <<1579, 1605>>>>, <<64679, <<1580, 1581>>>>, <<64680, <<1580, 1605>>>>,
      <<64681, <<1581, 1580>>>>, <<64682, <<1581, 1605>>>>, <<64683, <<1582, 1580>>>>,
      <<64684, <<1582, 1605>>>>, <<64685, <<1587, 1580>>>>, <<64686, <<1587, 1581>>>>,
      <<64687, <<1587, 1582>>>>, <<64688, <<1587, 1605>>>>, <<64689, <<1589, 1581>>>>,
      <<64690, <<1589, 1582>>>>, <<64691, <<1589, 1605>>>>, <<64692, <<1590, 1580>>>>,
      <<64693, <<1590, 1581>>>>, <<64694, <<1590, 1582>>>>, <<64695, <<1590, 1605>>>>,
      <<64696, <<1591, 1581>>>>, <<64697, <<1592, 1605>>>>, <<64698, <<1593, 1580>>>>,
      <<64699, <<1593, 1605>>>>, <<64700, <<1594, 1580>>>>, <<64701, <<1594, 1605>>>>,
      <<64702, <<1601, 1580>>>>, <<64703, <<1601, 1581>>>>, <<64704, <<1601, 1582>>>>,
      <<64705, <<1601, 1605>>>>, <<64706, <<1602, 1581>>>>, <<64707, <<1602, 1605>>>>,
      <<64708, <<1603, 1580>>>>, <<64709, <<1603, 1581>>>>, <<64710, <<1603, 1582>>>>,
      <<64711, <<1603, 1604>>>>, <<64712, <<1603, 1605>>>>, <<64713, <<1604, 1580>>>>,
      <<64714, <<1604, 1581>>>>, <<64715, <<1604, 1582>>>>, <<64716, <<1604, 1605>>>>,
      <<64717, <<1604, 1607>>>>, <<64718, <<1605, 1580>>>>, <<64719, <<1605, 1581>>>>,
      <<64720, <<1605, 1582>>>>, <<64721, <<1605, 1605>>>>, <<64722, <<1606, 1580>>>>,
      <<64723, <<1606, 1581>>>>, <<64724, <<1606, 1582>>>>, <<64725, <<1606, 1605>>>>,
      <<64726, <<1606, 1607>>>>, <<64727, <<1607, 1580>>>>, <<64728, <<1607, 1605>>>>,
      <<64729, <<1607, 1648>>>>, <<64730, <<1610, 1580>>>>, <<64731, <<1610, 1581>>>>,
      <<64732, <<1610, 1582>>>>, <<64733, <<1610, 1605>>>>, <<64734, <<1610, 1607>>>>,
      <<64735, <<1610, 1620, 1605>>>>, <<64736, <<1610, 1620, 1607>>>>, <<64737, <<1576, 1605>>>>,
      <<64738, <<1576, 1607>>>>, <<64739, <<1578, 1605>>>>, <<64740, <<1578, 1607>>>>,
      <<64741, <<1579, 1605>>>>, <<64742, <<1579, 1607>>>>, <<64743, <<1587, 1605>>>>,
      <<64744, <<1587, 1607>>>>, <<64745, <<1588, 1605>>>>, <<64746, <<1588, 1607>>>>,
      <<64747, <<1603, 1604>>>>, <<64748, <<1603, 1605>>>>, <<64749, <<1604, 1605>>>>,
      <<64750, <<1606, 1605>>>>, <<64751, <<1606, 1607>>>>, <<64752, <<1610, 1605>>>>,
      <<64753, <<1610, 1607>>>>, <<64754, <<1600, 1614, 1617>>>>, <<64755, <<1600, 1615, 1617>>>>,
      <<64756, <<1600, 1616, 1617>>>>, <<64757, <<1591, 1609>>>>, <<64758, <<1591, 1610>>>>,
      <<64759, <<1593, 1609>>>>, <<64760, <<1593, 1610>>>>, <<64761, <<1594, 1609>>>>,
      <<64762, <<1594, 1610>>>>, <<64763, <<1587, 1609>>>>, <<64764, <<1587, 1610>>>>,
      <<64765, <<1588, 1609>>>>, <<64766, <<1588, 1610>>>>, <<64767, <<1581, 1609>>>>,
      <<64768, <<1581, 1610>>>>, <<64769, <<1580, 1609>>>>, <<64770, <<1580, 1610>>>>,
      <<64771, <<1582, 1609>>>>, <<64772, <<1582, 1610>>>>, <<64773, <<1589, 1609>>>>,
      <<64774, <<1589, 1610>>>>, <<64775, <<1590, 1609>>>>, <<64776, <<1590, 1610>>>>,
      <<64777, <<1588, 1580>>>>, <<64778, <<1588, 1581>>>>, <<64779, <<1588, 1582>>>>,
      <<64780, <<1588, 1605>>>>, <<64781, <<1588, 1585>>>>, <<64782, <<1587, 1585>>>>,
      <<64783, <<1589, 1585>>>>, <<64784, <<1590, 1585>>>>, <<64785, <<1591, 1609>>>>,
      <<64786, <<1591, 1610>>>>, <<64787, <<1593, 1609>>>>, <<64788, <<1593, 1610>>>>,
      <<64789, <<1594, 1609>>>>, <<64790, <<1594, 1610>>>>, <<64791, <<1587, 1609>>>>,
      <<64792, <<1587, 1610>>>>, <<64793, <<1588, 1609>>>>, <<64794, <<1588, 1610>>>>,
      <<64795, <<1581, 1609>>>>, <<64796, <<1581, 1610>>>>, <<64797, <<1580, 1609>>>>,
      <<64798, <<1580, 1610>>>>, <<64799, <<1582, 1609>>>>, <<64800, <<1582, 1610>>>>,
      <<64801, <<1589, 1609>>>>, <<64802, <<1589, 1610>>>>, <<64803, <<1590, 1609>>>>,
      <<64804, <<1590, 1610>>>>, <<64805, <<1588, 1580>>>>, <<64806, <<1588, 1581>>>>,
      <<64807, <<1588, 1582>>>>, <<64808, <<1588, 1605>>>>, <<64809, <<1588, 1585>>>>,
      <<64810, <<1587, 1585>>>>, <<64811, <<1589, 1585>>>>, <<64812, <<1590, 1585>>>>,
      <<64813, <<1588, 1580>>>>, <<64814, <<1588, 1581>>>>, <<64815, <<1588, 1582>>>>,
      <<64816, <<1588, 1605>>>>, <<64817, <<1587, 1607>>>>, <<64818, <<1588, 1607>>>>,
      <<64819, <<1591, 1605>>>>, <<64820, <<1587, 1580>>>>, <<64821, <<1587, 1581>>>>,
      <<64822, <<1587, 1582>>>>, <<64823, <<1588, 1580>>>>, <<64824, <<1588, 1581>>>>,
      <<64825, <<1588, 1582>>>>, <<64826, <<1591, 1605>>>>, <<64827, <<1592, 1605>>>>,
      <<64828, <<1575, 1611>>>>, <<64829, <<1575, 1611>>>>, <<64848, <<1578, 1580, 1605>>>>,
      <<64849, <<1578, 1581, 1580>>>>, <<64850, <<1578, 1581, 1580>>>>,
      <<64851, <<1578, 1581, 1605>>>>, <<64852, <<1578, 1582, 1605>>>>,
      <<64853, <<1578, 1605, 1580>>>>, <<64854, <<1578, 1605, 1581>>>>,
      <<64855, <<1578, 1605, 1582>>>>, <<64856, <<1580, 1605, 1581>>>>,
      <<64857, <<1580, 1605, 1581>>>>, <<64858, <<1581, 1605, 1610>>>>,
      <<64859, <<1581, 1605, 1609>>>>, <<64860, <<1587, 1581, 1580>>>>,
      <<64861, <<1587, 1580, 1581>>>>, <<64862, <<1587, 1580, 1609>>>>,
      <<64863, <<1587, 1605, 1581>>>>, <<64864, <<1587, 1605, 1581>>>>,
      <<64865, <<1587, 1605, 1580>>>>, <<64866, <<1587, 1605, 1605>>>>,
      <<64867, <<1587, 1605, 1605>>>>, <<64868, <<1589, 1581, 1581>>>>,
      <<64869, <<1589, 1581, 1581>>>>, <<64870, <<1589, 1605, 1605>>>>,
      <<64871, <<1588, 1581, 1605>>>>, <<64872, <<1588, 1581, 1605>>>>,
      <<64873, <<1588, 1580, 1610>>>>, <<64874, <<1588, 1605, 1582>>>>,
      <<64875, <<1588, 1605, 1582>>>>, <<64876, <<1588, 1605, 1605>>>>,
      <<64877, <<1588, 1605, 1605>>>>, <<64878, <<1590, 1581, 1609>>>>,
      <<64879, <<1590, 1582, 1605>>>>, <<64880, <<1590, 1582, 1605>>>>,
      <<64881, <<1591, 1605, 1581>>>>, <<64882, <<1591, 1605, 1581>>>>,
      <<64883, <<1591, 1605, 1605>>>>, <<64884, <<1591, 1605, 1610>>>>,
      <<64885, <<1593, 1580, 1605>>>>, <<64886, <<1593, 1605, 1605>>>>,
      <<64887, <<1593, 1605, 1605>>>>, <<64888, <<1593, 1605, 1609>>>>,
      <<64889, <<1594, 1605, 1605>>>>, <<64890, <<1594, 1605, 1610>>>>,
      <<64891, <<1594, 1605, 1609>>>>, <<64892, <<1601, 1582, 1605>>>>,
      <<64893, <<1601, 1582, 1605>>>>, <<64894, <<1602, 1605, 1581>>>>,
      <<64895, <<1602, 1605, 1605>>>>, <<64896, <<1604, 1581, 1605>>>>,
      <<64897, <<1604, 1581, 1610>>>>, <<64898, <<1604, 1581, 1609>>>>,
      <<64899, <<1604, 1580, 1580>>>>, <<64900, <<1604, 1580, 1580>>>>,
      <<64901, <<1604, 1582, 1605>>>>, <<64902, <<1604, 1582, 1605>>>>,
      <<64903, <<1604, 1605, 1581>>>>, <<64904, <<1604, 1605, 1581>>>>,
      <<64905, <<1605, 1581, 1580>>>>, <<64906, <<1605, 1581, 1605>>>>,
      <<64907, <<1605, 1581, 1610>>>>, <<64908, <<1605, 1580, 1581>>>>,
      <<64909, <<1605, 1580, 1605>>>>, <<64910, <<1605, 1582, 1580>>>>,
      <<64911, <<1605, 1582, 1605>>>>, <<64914, <<1605, 1580, 1582>>>>,
      <<64915, <<1607, 1605, 1580>>>>, <<64916, <<1607, 1605, 1605>>>>,
      <<64917, <<1606, 1581, 1605>>>>, <<64918, <<1606, 1581, 1609>>>>,
      <<64919, <<1606, 1580, 1605>>>>, <<64920, <<1606, 1580, 1605>>>>,
      <<64921, <<1606, 1580, 1609>>>>, <<64922, <<1606, 1605, 1610>>>>,
      <<64923, <<1606, 1605, 1609>>>>, <<64924, <<1610, 1605, 1605>>>>,
      <<64925, <<1610, 1605, 1605>>>>, <<64926, <<1576, 1582, 1610>>>>,
      <<64927, <<1578, 1580, 1610>>>>, <<64928, <<1578, 1580, 1609>>>>,
      <<64929, <<1578, 1582, 1610>>>>, <<64930, <<1578, 1582, 1609>>>>,
      <<64931, <<1578, 1605, 1610>>>>, <<64932, <<1578, 1605, 1609>>>>,
      <<64933, <<1580, 1605, 1610>>>>, <<64934, <<1580, 1581, 1609>>>>,
      <<64935, <<1580, 1605, 1609>>>>, <<64936, <<1587, 1582, 1609>>>>,
      <<64937, <<1589, 1581, 1610>>>>, <<64938, <<1588, 1581, 1610>>>>,
      <<64939, <<1590, 1581, 1610>>>>, <<64940, <<1604, 1580, 1610>>>>,
      <<64941, <<1604, 1605, 1610>>>>, <<64942, <<1610, 1581, 1610>>>>,
      <<64943, <<1610, 1580, 1610>>>>, <<64944, <<1610, 1605, 1610>>>>,
      <<64945, <<1605, 1605, 1610>>>>, <<64946, <<1602, 1605, 1610>>>>,
      <<64947, <<1606, 1581, 1610>>>>, <<64948, <<1602, 1605, 1581>>>>,
      <<64949, <<1604, 1581, 1605>>>>, <<64950, <<1593, 1605, 1610>>>>,
      <<64951, <<1603, 1605, 1610>>>>, <<64952, <<1606, 1580, 1581>>>>,
      <<64953, <<1605, 1582, 1610>>>>, <<64954, <<1604, 1580, 1605>>>>,
      <<64955, <<1603, 1605, 1605>>>>, <<64956, <<1604, 1580, 1605>>>>,
      <<64957, <<1606, 1580, 1581>>>>, <<64958, <<1580, 1581, 1610>>>>,
      <<64959, <<1581, 1580, 1610>>>>, <<64960, <<1605, 1580, 1610>>>>,
      <<64961, <<1601, 1605, 1610>>>>, <<64962, <<1576, 1581, 1610>>>>,
      <<64963, <<1603, 1605, 1605>>>>, <<64964, <<1593, 1580, 1605>>>>,
      <<64965, <<1589, 1605, 1605>>>>, <<64966, <<1587, 1582, 1610>>>>,
      <<64967, <<1606, 1580, 1610>>>>, <<65008, <<1589, 1604, 1746>>>>,
      <<65009, <<1602, 1604, 1746>>>>, <<65010, <<1575, 1604, 1604, 1607>>>>,
      <<65011, <<1575, 1603, 1576, 1585>>>>, <<65012, <<1605, 1581, 1605, 1583>>>>,
      <<65013, <<1589, 1604, 1593, 1605>>>>, <<65014, <<1585, 1587, 1608, 1604>>>>,
      <<65015, <<1593, 1604, 1610, 1607>>>>, <<65016, <<1608, 1587, 1604, 1605>>>>,
      <<65017, <<1589, 1604, 1609>>>>,
      <<65018, <<1589, 1604, 1609, 32, 1575, 1604, 1604, 1607, 32, 1593, 1604, 1610, 1607, 32, 1608, 1587, 1604, 1605>>>>,
      <<65019, <<1580, 1604, 32, 1580, 1604, 1575, 1604, 1607>>>>,
      <<65020, <<1585, 1740, 1575, 1604>>>>, <<65072, <<46, 46>>>>, <<65073, <<8212>>>>,
      <<65074, <<8211>>>>, <<65075, <<95>>>>, <<65076, <<95>>>>, <<65077, <<40>>>>,
      <<65078, <<41>>>>, <<65079, <<123>>>>, <<65080, <<125>>>>, <<65081, <<12308>>>>,
      <<65082, <<12309>>>>, <<65083, <<12304>>>>, <<65084, <<12305>>>>, <<65085, <<12298>>>>,
      <<65086, <<12299>>>>, <<65087, <<12296>>>>, <<65088, <<12297>>>>, <<65089, <<12300>>>>,
      <<65090, <<12301>>>>, <<65091, <<12302>>>>, <<65092, <<12303>>>>, <<65097, <<32, 773>>>>,
      <<65098, <<32, 773>>>>, <<65099, <<32, 773>>>>, <<65100, <<32, 773>>>>, <<65101, <<95>>>>,
      <<65102, <<95>>>>, <<65103, <<95>>>>, <<65104, <<44>>>>, <<65105, <<12289>>>>,
      <<65106, <<46>>>>, <<65108, <<59>>>>, <<65109, <<58>>>>, <<65110, <<63>>>>, <<65111, <<33>>>>,
      <<65112, <<8212>>>>, <<65113, <<40>>>>, <<65114, <<41>>>>, <<65115, <<123>>>>,
      <<65116, <<125>>>>, <<65117, <<12308>>>>, <<65118, <<12309>>>>, <<65119, <<35>>>>,
      <<65120, <<38>>>>, <<65121, <<42>>>>, <<65122, <<43>>>>, <<65123, <<45>>>>, <<65124, <<60>>>>,
      <<65125, <<62>>>>, <<65126, <<61>>>>, <<65128, <<92>>>>, <<65129, <<36>>>>, <<65130, <<37>>>>,
      <<65131, <<64>>>>, <<65136, <<32, 1611>>>>, <<65137, <<1600, 1611>>>>, <<65138, <<32, 1612>>>>,
      <<65140, <<32, 1613>>>>, <<65142, <<32, 1614>>>>, <<65143, <<1600, 1614>>>>,
      <<65144, <<32, 1615>>>>, <<65145, <<1600, 1615>>>>, <<65146, <<32, 1616>>>>,
      <<65147, <<1600, 1616>>>>, <<65148, <<32, 1617>>>>, <<65149, <<1600, 1617>>>>,
      <<65150, <<32, 1618>>>>, <<65151, <<1600, 1618>>>>, <<65152, <<1569>>>>,
      <<65153, <<1575, 1619>>>>, <<65154, <<1575, 1619>>>>, <<65155, <<1575, 1620>>>>,
      <<65156, <<1575, 1620>>>>, <<65157, <<1608, 1620>>>>, <<65158, <<1608, 1620>>>>,
      <<65159, <<1575, 1621>>>>, <<65160, <<1575, 1621>>>>, <<65161, <<1610, 1620>>>>,
      <<65162, <<1610, 1620>>>>, <<65163, <<1610, 1620>>>>, <<65164, <<1610, 1620>>>>,
      <<65165, <<1575>>>>, <<65166, <<1575>>>>, <<65167, <<1576>>>>, <<65168, <<1576>>>>,
      <<65169, <<1576>>>>, <<65170, <<1576>>>>, <<65171, <<1577>>>>, <<65172, <<1577>>>>,
      <<65173, <<1578>>>>, <<65174, <<1578>>>>, <<65175, <<1578>>>>, <<65176, <<1578>>>>,
      <<65177, <<1579>>>>, <<65178, <<1579>>>>, <<65179, <<1579>>>>, <<65180, <<1579>>>>,
      <<65181, <<1580>>>>, <<65182, <<1580>>>>, <<65183, <<1580>>>>, <<65184, <<1580>>>>,
      <<65185, <<1581>>>>, <<65186, <<1581>>>>, <<65187, <<1581>>>>, <<65188, <<1581>>>>,
      <<65189, <<1582>>>>, <<65190, <<1582>>>>, <<65191, <<1582>>>>, <<65192, <<1582>>>>,
      <<65193, <<1583>>>>, <<65194, <<1583>>>>, <<65195, <<1584>>>>, <<65196, <<1584>>>>,
      <<65197, <<1585>>>>, <<65198, <<1585>>>>, <<65199, <<1586>>>>, <<65200, <<1586>>>>,
      <<65201, <<1587>>>>, <<65202, <<1587>>>>, <<65203, <<1587>>>>, <<65204, <<1587>>>>,
      <<65205, <<1588>>>>, <<65206, <<1588>>>>, <<65207, <<1588>>>>, <<65208, <<1588>>>>,
      <<65209, <<1589>>>>, <<65210, <<1589>>>>, <<65211, <<1589>>>>, <<65212, <<1589>>>>,
      <<65213, <<1590>>>>, <<65214, <<1590>>>>, <<65215, <<1590>>>>, <<65216, <<1590>>>>,
      <<65217, <<1591>>>>, <<65218, <<1591>>>>, <<65219, <<1591>>>>, <<65220, <<1591>>>>,
      <<65221, <<1592>>>>, <<65222, <<1592>>>>, <<65223, <<1592>>>>, <<65224, <<1592>>>>,
      <<65225, <<1593>>>>, <<65226, <<1593>>>>, <<65227, <<1593>>>>, <<65228, <<1593>>>>,
      <<65229, <<1594>>>>, <<65230, <<1594>>>>, <<65231, <<1594>>>>, <<65232, <<1594>>>>,
      <<65233, <<1601>>>>, <<65234, <<1601>>>>, <<65235, <<1601>>>>, <<65236, <<1601>>>>,
      <<65237, <<1602>>>>, <<65238, <<1602>>>>, <<65239, <<1602>>>>, <<65240, <<1602>>>>,
      <<65241, <<1603>>>>, <<65242, <<1603>>>>, <<65243, <<1603>>>>, <<65244, <<1603>>>>,
      <<65245, <<1604>>>>, <<65246, <<1604>>>>, <<65247, <<1604>>>>, <<65248, <<1604>>>>,
      <<65249, <<1605>>>>, <<65250, <<1605>>>>, <<65251, <<1605>>>>, <<65252, <<1605>>>>,
      <<65253, <<1606>>>>, <<65254, <<1606>>>>, <<65255, <<1606>>>>, <<65256, <<1606>>>>,
      <<65257, <<1607>>>>, <<65258, <<1607>>>>, <<65259, <<1607>>>>, <<65260, <<1607>>>>,
      <<65261, <<1608>>>>, <<65262, <<1608>>>>, <<65263, <<1609>>>>, <<65264, <<1609>>>>,
      <<65265, <<1610>>>>, <<65266, <<1610>>>>, <<65267, <<1610>>>>, <<65268, <<1610>>>>,
      <<65269, <<1604, 1575, 1619>>>>, <<65270, <<1604, 1575, 1619>>>>,
      <<65271, <<1604, 1575, 1620>>>>, <<65272, <<1604, 1575, 1620>>>>,
      <<65273, <<1604, 1575, 1621>>>>, <<65274, <<1604, 1575, 1621>>>>, <<65275, <<1604, 1575>>>>,
      <<65276, <<1604, 1575>>>>, <<65281, <<33>>>>, <<65282, <<34>>>>, <<65283, <<35>>>>,
      <<65284, <<36>>>>, <<65285, <<37>>>>, <<65286, <<38>>>>, <<65287, <<39>>>>, <<65288, <<40>>>>,
      <<65289, <<41>>>>, <<65290, <<42>>>>, <<65291, <<43>>>>, <<65292, <<44>>>>, <<65293, <<45>>>>,
      <<65294, <<46>>>>, <<65295, <<47>>>>, <<65296, <<48>>>>, <<65297, <<49>>>>, <<65298, <<50>>>>,
      <<65299, <<51>>>>, <<65300, <<52>>>>, <<65301, <<53>>>>, <<65302, <<54>>>>, <<65303, <<55>>>>,
      <<65304, <<56>>>>, <<65305, <<57>>>>, <<65306, <<58>>>>, <<65307, <<59>>>>, <<65308, <<60>>>>,
      <<65309, <<61>>>>, <<65310, <<62>>>>, <<65311, <<63>>>>, <<65312, <<64>>>>, <<65313, <<65>>>>,
      <<65314, <<66>>>>, <<65315, <<67>>>>, <<65316, <<68>>>>, <<65317, <<69>>>>, <<65318, <<70>>>>,
      <<65319, <<71>>>>, <<65320, <<72>>>>, <<65321, <<73>>>>, <<65322, <<74>>>>, <<65323, <<75>>>>,
      <<65324, <<76>>>>, <<65325, <<77>>>>, <<65326, <<78>>>>, <<65327, <<79>>>>, <<65328, <<80>>>>,
      <<65329, <<81>>>>, <<65330, <<82>>>>, <<65331, <<83>>>>, <<65332, <<84>>>>, <<65333, <<85>>>>,
      <<65334, <<86>>>>, <<65335, <<87>>>>, <<65336, <<88>>>>, <<65337, <<89>>>>, <<65338, <<90>>>>,
      <<65339, <<91>>>>, <<65340, <<92>>>>, <<65341, <<93>>>>, <<65342, <<94>>>>, <<65343, <<95>>>>,
      <<65344, <<96>>>>, <<65345, <<97>>>>, <<65346, <<98>>>>, <<65347, <<99>>>>, <<65348, <<100>>>>,
      <<65349, <<101>>>>, <<65350, <<102>>>>, <<65351, <<103>>>>, <<65352, <<104>>>>,
      <<65353, <<105>>>>, <<65354, <<106>>>>, <<65355, <<107>>>>, <<65356, <<108>>>>,
      <<65357, <<109>>>>, <<65358, <<110>>>>, <<65359, <<111>>>>, <<65360, <<112>>>>,
      <<65361, <<113>>>>, <<65362, <<114>>>>, <<65363, <<115>>>>, <<65364, <<116>>>>,
      <<65365, <<117>>>>, <<65366, <<118>>>>, <<65367, <<119>>>>, <<65368, <<120>>>>,
      <<65369, <<121>>>>, <<65370, <<122>>>>, <<65371, <<123>>>>, <<65372, <<124>>>>,
      <<65373, <<125>>>>, <<65374, <<126>>>>, <<65375, <<10629>>>>, <<65376, <<10630>>>>,
      <<65377, <<12290>>>>, <<65378, <<12300>>>>, <<65379, <<12301>>>>, <<65380, <<12289>>>>,
      <<65381, <<12539>>>>, <<65382, <<12530>>>>, <<65383, <<12449>>>>, <<65384, <<12451>>>>,
      <<65385, <<12453>>>>, <<65386, <<12455>>>>, <<65387, <<12457>>>>, <<65388, <<12515>>>>,
      <<65389, <<12517>>>>, <<65390, <<12519>>>>, <<65391, <<12483>>>>, <<65392, <<12540>>>>,
      <<65393, <<12450>>>>, <<65394, <<12452>>>>, <<65395, <<12454>>>>, <<65396, <<12456>>>>,
      <<65397, <<12458>>>>, <<65398, <<12459>>>>, <<65399, <<12461>>>>, <<65400, <<12463>>>>,
      <<65401, <<12465>>>>, <<65402, <<12467>>>>, <<65403, <<12469>>>>, <<65404, <<12471>>>>,
      <<65405, <<12473>>>>, <<65406, <<12475>>>>, <<65407, <<12477>>>>, <<65408, <<12479>>>>,
      <<65409, <<12481>>>>, <<65410, <<12484>>>>, <<65411, <<12486>>>>, <<65412, <<12488>>>>,
      <<65413, <<12490>>>>, <<65414, <<12491>>>>, <<65415, <<12492>>>>, <<65416, <<12493>>>>,
      <<65417, <<12494>>>>, <<65418, <<12495>>>>, <<65419, <<12498>>>>, <<65420, <<12501>>>>,
      <<65421, <<12504>>>>, <<65422, <<12507>>>>, <<65423, <<12510>>>>, <<65424, <<12511>>>>,
      <<65425, <<12512>>>>, <<65426, <<12513>>>>, <<65427, <<12514>>>>, <<65428, <<12516>>>>,
      <<65429, <<12518>>>>, <<65430, <<12520>>>>, <<65431, <<12521>>>>, <<65432, <<12522>>>>,
      <<65433, <<12523>>>>, <<65434, <<12524>>>>, <<65435, <<12525>>>>, <<65436, <<12527>>>>,
      <<65437, <<12531>>>>, <<65438, <<12441>>>>, <<65439, <<12442>>>>, <<65440, <<4448>>>>,
      <<65441, <<4352>>>>, <<65442, <<4353>>>>, <<65443, <<4522>>>>, <<65444, <<4354>>>>,
      <<65445, <<4524>>>>, <<65446, <<4525>>>>, <<65447, <<4355>>>>, <<65448, <<4356>>>>,
      <<65449, <<4357>>>>, <<65450, <<4528>>>>, <<65451, <<4529>>>>, <<65452, <<4530>>>>,
      <<65453, <<4531>>>>, <<65454, <<4532>>>>, <<65455, <<4533>>>>, <<65456, <<4378>>>>,
      <<65457, <<4358>>>>, <<65458, <<4359>>>>, <<65459, <<4360>>>>, <<65460, <<4385>>>>,
      <<65461, <<4361>>>>, <<65462, <<4362>>>>, <<65463, <<4363>>>>, <<65464, <<4364>>>>,
      <<65465, <<4365>>>>, <<65466, <<4366>>>>, <<65467, <<4367>>>>, <<65468, <<4368>>>>,
      <<65469, <<4369>>>>, <<65470, <<4370>>>>, <<65474, <<4449>>>>, <<65475, <<4450>>>>,
      <<65476, <<4451>>>>, <<65477, <<4452>>>>, <<65478, <<4453>>>>, <<65479, <<4454>>>>,
      <<65482, <<4455>>>>, <<65483, <<4456>>>>, <<65484, <<4457>>>>, <<65485, <<4458>>>>,
      <<65486, <<4459>>>>, <<65487, <<4460>>>>, <<65490, <<4461>>>>, <<65491, <<4462>>>>,
      <<65492, <<4463>>>>, <<65493, <<4464>>>>, <<65494, <<4465>>>>, <<65495, <<4466>>>>,
      <<65498, <<4467>>>>, <<65499, <<4468>>>>, <<65500, <<4469>>>>, <<65504, <<162>>>>,
      <<65505, <<163>>>>, <<65506, <<172>>>>, <<65507, <<32, 772>>>>, <<65508, <<166>>>>,
      <<65509, <<165>>>>, <<65510, <<8361>>>>, <<65512, <<9474>>>>, <<65513, <<8592>>>>,
      <<65514, <<8593>>>>, <<65515, <<8594>>>>, <<65516, <<8595>>>>, <<65517, <<9632>>>>,
      <<65518, <<9675>>>>, <<119134, <<119127, 119141>>>>, <<119135, <<119128, 119141>>>>,
      <<119136, <<119128, 119141, 119150>>>>, <<119137, <<119128, 119141, 119151>>>>,
      <<119138, <<119128, 119141, 119152>>>>, <<119139, <<119128, 119141, 119153>>>>,
      <<119140, <<119128, 119141, 119154>>>>, <<119227, <<119225, 119141>>>>,
      <<119228, <<119226, 119141>>>>, <<119229, <<119225, 119141, 119150>>>>,
      <<119230, <<119226, 119141, 119150>>>>, <<119231, <<119225, 119141, 119151>>>>,
      <<119232, <<119226, 119141, 119151>>>>, <<119808, <<65>>>>, <<119809, <<66>>>>,
      <<119810, <<67>>>>, <<119811, <<68>>>>, <<119812, <<69>>>>, <<119813, <<70>>>>,
      <<119814, <<71>>>>, <<119815, <<72>>>>, <<119816, <<73>>>>, <<119817, <<74>>>>,
      <<119818, <<75>>>>, <<119819, <<76>>>>, <<119820, <<77>>>>, <<119821, <<78>>>>,
      <<119822, <<79>>>>, <<119823, <<80>>>>, <<119824, <<81>>>>, <<119825, <<82>>>>,
      <<119826, <<83>>>>, <<119827, <<84>>>>, <<119828, <<85>>>>, <<119829, <<86>>>>,
      <<119830, <<87>>>>, <<119831, <<88>>>>, <<119832, <<89>>>>, <<119833, <<90>>>>,
      <<119834, <<97>>>>, <<119835, <<98>>>>, <<119836, <<99>>>>, <<119837, <<100>>>>,
      <<119838, <<101>>>>, <<119839, <<102>>>>, <<119840, <<103>>>>, <<119841, <<104>>>>,
      <<119842, <<105>>>>, <<119843, <<106>>>>, <<119844, <<107>>>>, <<119845, <<108>>>>,
      <<119846, <<109>>>>, <<119847, <<110>>>>, <<119848, <<111>>>>, <<119849, <<112>>>>,
      <<119850, <<113>>>>, <<119851, <<114>>>>, <<119852, <<115>>>>, <<119853, <<116>>>>,
      <<119854, <<117>>>>, <<119855, <<118>>>>, <<119856, <<119>>>>, <<119857, <<120>>>>,
      <<119858, <<121>>>>, <<119859, <<122>>>>, <<119860, <<65>>>>, <<119861, <<66>>>>,
      <<119862, <<67>>>>, <<119863, <<68>>>>, <<119864, <<69>>>>, <<119865, <<70>>>>,
      <<119866, <<71>>>>, <<119867, <<72>>>>, <<119868, <<73>>>>, <<119869, <<74>>>>,
      <<119870, <<75>>>>, <<119871, <<76>>>>, <<119872, <<77>>>>, <<119873, <<78>>>>,
      <<119874, <<79>>>>, <<119875, <<80>>>>, <<119876, <<81>>>>, <<119877, <<82>>>>,
      <<119878, <<83>>>>, <<119879, <<84>>>>, <<119880, <<85>>>>, <<119881, <<86>>>>,
      <<119882, <<87>>>>, <<119883, <<88>>>>, <<119884, <<89>>>>, <<119885, <<90>>>>,
      <<119886, <<97>>>>, <<119887, <<98>>>>, <<119888, <<99>>>>, <<119889, <<100>>>>,
      <<119890, <<101>>>>, <<119891, <<102>>>>, <<119892, <<103>>>>, <<119894, <<105>>>>,
      <<119895, <<106>>>>, <<119896, <<107>>>>, <<119897, <<108>>>>, <<119898, <<109>>>>,
      <<119899, <<110>>>>, <<119900, <<111>>>>, <<119901, <<112>>>>, <<119902, <<113>>>>,
      <<119903, <<114>>>>, <<119904, <<115>>>>, <<119905, <<116>>>>, <<119906, <<117>>>>,
      <<119907, <<118>>>>, <<119908, <<119>>>>, <<119909, <<120>>>>, <<119910, <<121>>>>,
      <<119911, <<122>>>>, <<119912, <<65>>>>, <<119913, <<66>>>>, <<119914, <<67>>>>,
      <<119915, <<68>>>>, <<119916, <<69>>>>, <<119917, <<70>>>>, <<119918, <<71>>>>,
      <<119919, <<72>>>>, <<119920, <<73>>>>, <<119921, <<74>>>>, <<119922, <<75>>>>,
      <<119923, <<76>>>>, <<119924, <<77>>>>, <<119925, <<78>>>>, <<119926, <<79>>>>,
      <<119927, <<80>>>>, <<119928, <<81>>>>, <<119929, <<82>>>>, <<119930, <<83>>>>,
      <<119931, <<84>>>>, <<119932, <<85>>>>, <<119933, <<86>>>>, <<119934, <<87>>>>,
      <<119935, <<88>>>>, <<119936, <<89>>>>, <<119937, <<90>>>>, <<119938, <<97>>>>,
      <<119939, <<98>>>>, <<119940, <<99>>>>, <<119941, <<100>>>>, <<119942, <<101>>>>,
      <<119943, <<102>>>>, <<119944, <<103>>>>, <<119945, <<104>>>>, <<119946, <<105>>>>,
      <<119947, <<106>>>>, <<119948, <<107>>>>, <<119949, <<108>>>>, <<119950, <<109>>>>,
      <<119951, <<110>>>>, <<119952, <<111>>>>, <<119953, <<112>>>>, <<119954, <<113>>>>,
      <<119955, <<114>>>>, <<119956, <<115>>>>, <<119957, <<116>>>>, <<119958, <<117>>>>,
      <<119959, <<118>>>>, <<119960, <<119>>>>, <<119961, <<120>>>>, <<119962, <<121>>>>,
      <<119963, <<122>>>>, <<119964, <<65>>>>, <<119966, <<67>>>>, <<119967, <<68>>>>,
      <<119970, <<71>>>>, <<119973, <<74>>>>, <<119974, <<75>>>>, <<119977, <<78>>>>,
      <<119978, <<79>>>>, <<119979, <<80>>>>, <<119980, <<81>>>>, <<119982, <<83>>>>,
      <<119983, <<84>>>>, <<119984, <<85>>>>, <<119985, <<86>>>>, <<119986, <<87>>>>,
      <<119987, <<88>>>>, <<119988, <<89>>>>, <<119989, <<90>>>>, <<119990, <<97>>>>,
      <<119991, <<98>>>>, <<119992, <<99>>>>, <<119993, <<100>>>>, <<119995, <<102>>>>,
      <<119997, <<104>>>>, <<119998, <<105>>>>, <<119999, <<106>>>>, <<120000, <<107>>>>,
      <<120002, <<109>>>>, <<120003, <<110>>>>, <<120005, <<112>>>>, <<120006, <<113>>>>,
      <<120007, <<114>>>>, <<120008, <<115>>>>, <<120009, <<116>>>>, <<120010, <<117>>>>,
      <<120011, <<118>>>>, <<120012, <<119>>>>, <<120013, <<120>>>>, <<120014, <<121>>>>,
      <<120015, <<122>>>>, <<120016, <<65>>>>, <<120017, <<66>>>>, <<120018, <<67>>>>,
      <<120019, <<68>>>>, <<120020, <<69>>>>, <<120021, <<70>>>>, <<120022, <<71>>>>,
      <<120023, <<72>>>>, <<120024, <<73>>>>, <<120025, <<74>>>>, <<120026, <<75>>>>,
      <<120027, <<76>>>>, <<120028, <<77>>>>, <<120029, <<78>>>>, <<120030, <<79>>>>,
      <<120031, <<80>>>>, <<120032, <<81>>>>, <<120033, <<82>>>>, <<120034, <<83>>>>,
      <<120035, <<84>>>>, <<120036, <<85>>>>, <<120037, <<86>>>>, <<120038, <<87>>>>,
      <<120039, <<88>>>>, <<120040, <<89>>>>, <<120041, <<90>>>>, <<120042, <<97>>>>,
      <<120043, <<98>>>>, <<120044, <<99>>>>, <<120045, <<100>>>>, <<120046, <<101>>>>,
      <<120047, <<102>>>>, <<120048, <<103>>>>, <<120049, <<104>>>>, <<120050, <<105>>>>,
      <<120051, <<106>>>>, <<120052, <<107>>>>, <<120053, <<108>>>>, <<120054, <<109>>>>,
      <<120055, <<110>>>>, <<120056, <<111>>>>, <<120057, <<112>>>>, <<120058, <<113>>>>,
      <<120059, <<114>>>>, <<120060, <<115>>>>, <<120061, <<116>>>>, <<120062, <<117>>>>,
      <<120063, <<118>>>>, <<120064, <<119>>>>, <<120065, <<120>>>>, <<120066, <<121>>>>,
      <<120067, <<122>>>>, <<120068, <<65>>>>, <<120069, <<66>>>>, <<120071, <<68>>>>,
      <<120072, <<69>>>>, <<120073, <<70>>>>, <<120074, <<71>>>>, <<120077, <<74>>>>,
      <<120078, <<75>>>>, <<120079, <<76>>>>, <<120080, <<77>>>>, <<120081, <<78>>>>,
      <<120082, <<79>>>>, <<120083, <<80>>>>, <<120084, <<81>>>>, <<120086, <<83>>>>,
      <<120087, <<84>>>>, <<120088, <<85>>>>, <<120089, <<86>>>>, <<120090, <<87>>>>,
      <<120091, <<88>>>>, <<120092, <<89>>>>, <<120094, <<97>>>>, <<120095, <<98>>>>,
      <<120096, <<99>>>>, <<120097, <<100>>>>, <<120098, <<101>>>>, <<120099, <<102>>>>,
      <<120100, <<103>>>>, <<120101, <<104>>>>, <<120102, <<105>>>>, <<120103, <<106>>>>,
      <<120104, <<107>>>>, <<120105, <<108>>>>, <<120106, <<109>>>>, <<120107, <<110>>>>,
      <<120108, <<111>>>>, <<120109, <<112>>>>, <<120110, <<113>>>>, <<120111, <<114>>>>,
      <<120112, <<115>>>>, <<120113, <<116>>>>, <<120114, <<117>>>>, <<120115, <<118>>>>,
      <<120116, <<119>>>>, <<120117, <<120>>>>, <<120118, <<121>>>>, <<120119, <<122>>>>,
      <<120120, <<65>>>>, <<120121, <<66>>>>, <<120123, <<68>>>>, <<120124, <<69>>>>,
      <<120125, <<70>>>>, <<120126, <<71>>>>, <<120128, <<73>>>>, <<120129, <<74>>>>,
      <<120130, <<75>>>>, <<120131, <<76>>>>, <<120132, <<77>>>>, <<120134, <<79>>>>,
      <<120138, <<83>>>>, <<120139, <<84>>>>, <<120140, <<85>>>>, <<120141, <<86>>>>,
      <<120142, <<87>>>>, <<120143, <<88>>>>, <<120144, <<89>>>>, <<120146, <<97>>>>,
      <<120147, <<98>>>>, <<120148, <<99>>>>, <<120149, <<100>>>>, <<120150, <<101>>>>,
      <<120151, <<102>>>>, <<120152, <<103>>>>, <<120153, <<104>>>>, <<120154, <<105>>>>,
      <<120155, <<106>>>>, <<120156, <<107>>>>, <<120157, <<108>>>>, <<120158, <<109>>>>,
      <<120159, <<110>>>>, <<120160, <<111>>>>, <<120161, <<112>>>>, <<120162, <<113>>>>,
      <<120163, <<114>>>>, <<120164, <<115>>>>, <<120165, <<116>>>>, <<120166, <<117>>>>,
      <<120167, <<118>>>>, <<120168, <<119>>>>, <<120169, <<120>>>>, <<120170, <<121>>>>,
      <<120171, <<122>>>>, <<120172, <<65>>>>, <<120173, <<66>>>>, <<120174, <<67>>>>,
      <<120175, <<68>>>>, <<120176, <<69>>>>, <<120177, <<70>>>>, <<120178, <<71>>>>,
      <<120179, <<72>>>>, <<120180, <<73>>>>, <<120181, <<74>>>>, <<120182, <<75>>>>,
      <<120183, <<76>>>>, <<120184, <<77>>>>, <<120185, <<78>>>>, <<120186, <<79>>>>,
      <<120187, <<80>>>>, <<120188, <<81>>>>, <<120189, <<82>>>>, <<120190, <<83>>>>,
      <<120191, <<84>>>>, <<120192, <<85>>>>, <<120193, <<86>>>>, <<120194, <<87>>>>,
      <<120195, <<88>>>>, <<120196, <<89>>>>, <<120197, <<90>>>>, <<120198, <<97>>>>,
      <<120199, <<98>>>>, <<120200, <<99>>>>, <<120201, <<100>>>>, <<120202, <<101>>>>,
      <<120203, <<102>>>>, <<120204, <<103>>>>, <<120205, <<104>>>>, <<120206, <<105>>>>,
      <<120207, <<106>>>>, <<120208, <<107>>>>, <<120209, <<108>>>>, <<120210, <<109>>>>,
      <<120211, <<110>>>>, <<120212, <<111>>>>, <<120213, <<112>>>>, <<120214, <<113>>>>,
      <<120215, <<114>>>>, <<120216, <<115>>>>, <<120217, <<116>>>>, <<120218, <<117>>>>,
      <<120219, <<118>>>>, <<120220, <<119>>>>, <<120221, <<120>>>>, <<120222, <<121>>>>,
      <<120223, <<122>>>>, <<120224, <<65>>>>, <<120225, <<66>>>>, <<120226, <<67>>>>,
      <<120227, <<68>>>>, <<120228, <<69>>>>, <<120229, <<70>>>>, <<120230, <<71>>>>,
      <<120231, <<72>>>>, <<120232, <<73>>>>, <<120233, <<74>>>>, <<120234, <<75>>>>,
      <<120235, <<76>>>>, <<120236, <<77>>>>, <<120237, <<78>>>>, <<120238, <<79>>>>,
      <<120239, <<80>>>>, <<120240, <<81>>>>, <<120241, <<82>>>>, <<120242, <<83>>>>,
      <<120243, <<84>>>>, <<120244, <<85>>>>, <<120245, <<86>>>>, <<120246, <<87>>>>,
      <<120247, <<88>>>>, <<120248, <<89>>>>, <<120249, <<90>>>>, <<120250, <<97>>>>,
      <<120251, <<98>>>>, <<120252, <<99>>>>, <<120253, <<100>>>>, <<120254, <<101>>>>,
      <<120255, <<102>>>>, <<120256, <<103>>>>, <<120257, <<104>>>>, <<120258, <<105>>>>,
      <<120259, <<106>>>>, <<120260, <<107>>>>, <<120261, <<108>>>>, <<120262, <<109>>>>,
      <<120263, <<110>>>>, <<120264, <<111>>>>, <<120265, <<112>>>>, <<120266, <<113>>>>,
      <<120267, <<114>>>>, <<120268, <<115>>>>, <<120269, <<116>>>>, <<120270, <<117>>>>,
      <<120271, <<118>>>>, <<120272, <<119>>>>, <<120273, <<120>>>>, <<120274, <<121>>>>,
      <<120275, <<122>>>>, <<120276, <<65>>>>, <<120277, <<66>>>>, <<120278, <<67>>>>,
      <<120279, <<68>>>>, <<120280, <<69>>>>, <<120281, <<70>>>>, <<120282, <<71>>>>,
      <<120283, <<72>>>>, <<120284, <<73>>>>, <<120285, <<74>>>>, <<120286, <<75>>>>,
      <<120287, <<76>>>>, <<120288, <<77>>>>, <<120289, <<78>>>>, <<120290, <<79>>>>,
      <<120291, <<80>>>>, <<120292, <<81>>>>, <<120293, <<82>>>>, <<120294, <<83>>>>,
      <<120295, <<84>>>>, <<120296, <<85>>>>, <<120297, <<86>>>>, <<120298, <<87>>>>,
      <<120299, <<88>>>>, <<120300, <<89>>>>, <<120301, <<90>>>>, <<120302, <<97>>>>,
      <<120303, <<98>>>>, <<120304, <<99>>>>, <<120305, <<100>>>>, <<120306, <<101>>>>,
      <<120307, <<102>>>>, <<120308, <<103>>>>, <<120309, <<104>>>>, <<120310, <<105>>>>,
      <<120311, <<106>>>>, <<120312, <<107>>>>, <<120313, <<108>>>>, <<120314, <<109>>>>,
      <<120315, <<110>>>>, <<120316, <<111>>>>, <<120317, <<112>>>>, <<120318, <<113>>>>,
      <<120319, <<114>>>>, <<120320, <<115>>>>, <<120321, <<116>>>>, <<120322, <<117>>>>,
      <<120323, <<118>>>>, <<120324, <<119>>>>, <<120325, <<120>>>>, <<120326, <<121>>>>,
      <<120327, <<122>>>>, <<120328, <<65>>>>, <<120329, <<66>>>>, <<120330, <<67>>>>,
      <<120331, <<68>>>>, <<120332, <<69>>>>, <<120333, <<70>>>>, <<120334, <<71>>>>,
      <<120335, <<72>>>>, <<120336, <<73>>>>, <<120337, <<74>>>>, <<120338, <<75>>>>,
      <<120339, <<76>>>>, <<120340, <<77>>>>, <<120341, <<78>>>>, <<120342, <<79>>>>,
      <<120343, <<80>>>>, <<120344, <<81>>>>, <<120345, <<82>>>>, <<120346, <<83>>>>,
      <<120347, <<84>>>>, <<120348, <<85>>>>, <<120349, <<86>>>>, <<120350, <<87>>>>,
      <<120351, <<88>>>>, <<120352, <<89>>>>, <<120353, <<90>>>>, <<120354, <<97>>>>,
      <<120355, <<98>>>>, <<120356, <<99>>>>, <<120357, <<100>>>>, <<120358, <<101>>>>,
      <<120359, <<102>>>>, <<120360, <<103>>>>, <<120361, <<104>>>>, <<120362, <<105>>>>,
      <<120363, <<106>>>>, <<120364, <<107>>>>, <<120365, <<108>>>>, <<120366, <<109>>>>,
      <<120367, <<110>>>>, <<120368, <<111>>>>, <<120369, <<112>>>>, <<120370, <<113>>>>,
      <<120371, <<114>>>>, <<120372, <<115>>>>, <<120373, <<116>>>>, <<120374, <<117>>>>,
      <<120375, <<118>>>>, <<120376, <<119>>>>, <<120377, <<120>>>>, <<120378, <<121>>>>,
      <<120379, <<122>>>>, <<120380, <<65>>>>, <<120381, <<66>>>>, <<120382, <<67>>>>,
      <<120383, <<68>>>>, <<120384, <<69>>>>, <<120385, <<70>>>>, <<120386, <<71>>>>,
      <<120387, <<72>>>>, <<120388, <<73>>>>, <<120389, <<74>>>>, <<120390, <<75>>>>,
      <<120391, <<76>>>>, <<120392, <<77>>>>, <<120393, <<78>>>>, <<120394, <<79>>>>,
      <<120395, <<80>>>>, <<120396, <<81>>>>, <<120397, <<82>>>>, <<120398, <<83>>>>,
      <<120399, <<84>>>>, <<120400, <<85>>>>, <<120401, <<86>>>>, <<120402, <<87>>>>,
      <<120403, <<88>>>>, <<120404, <<89>>>>, <<120405, <<90>>>>, <<120406, <<97>>>>,
      <<120407, <<98>>>>, <<120408, <<99>>>>, <<120409, <<100>>>>, <<120410, <<101>>>>,
      <<120411, <<102>>>>, <<120412, <<103>>>>, <<120413, <<104>>>>, <<120414, <<105>>>>,
      <<120415, <<106>>>>, <<120416, <<107>>>>, <<120417, <<108>>>>, <<120418, <<109>>>>,
      <<120419, <<110>>>>, <<120420, <<111>>>>, <<120421, <<112>>>>, <<120422, <<113>>>>,
      <<120423, <<114>>>>, <<120424, <<115>>>>, <<120425, <<116>>>>, <<120426, <<117>>>>,
      <<120427, <<118>>>>, <<120428, <<119>>>>, <<120429, <<120>>>>, <<120430, <<121>>>>,
      <<120431, <<122>>>>, <<120432, <<65>>>>, <<120433, <<66>>>>, <<120434, <<67>>>>,
      <<120435, <<68>>>>, <<120436, <<69>>>>, <<120437, <<70>>>>, <<120438, <<71>>>>,
      <<120439, <<72>>>>, <<120440, <<73>>>>, <<120441, <<74>>>>, <<120442, <<75>>>>,
      <<120443, <<76>>>>, <<120444, <<77>>>>, <<120445, <<78>>>>, <<120446, <<79>>>>,
      <<120447, <<80>>>>, <<120448, <<81>>>>, <<120449, <<82>>>>, <<120450, <<83>>>>,
      <<120451, <<84>>>>, <<120452, <<85>>>>, <<120453, <<86>>>>, <<120454, <<87>>>>,
      <<120455, <<88>>>>, <<120456, <<89>>>>, <<120457, <<90>>>>, <<120458, <<97>>>>,
      <<120459, <<98>>>>, <<120460, <<99>>>>, <<120461, <<100>>>>, <<120462, <<101>>>>,
      <<120463, <<102>>>>, <<120464, <<103>>>>, <<120465, <<104>>>>, <<120466, <<105>>>>,
      <<120467, <<106>>>>, <<120468, <<107>>>>, <<120469, <<108>>>>, <<120470, <<109>>>>,
      <<120471, <<110>>>>, <<120472, <<111>>>>, <<120473, <<112>>>>, <<120474, <<113>>>>,
      <<120475, <<114>>>>, <<120476, <<115>>>>, <<120477, <<116>>>>, <<120478, <<117>>>>,
      <<120479, <<118>>>>, <<120480, <<119>>>>, <<120481, <<120>>>>, <<120482, <<121>>>>,
      <<120483, <<122>>>>, <<120488, <<913>>>>, <<120489, <<914>>>>, <<120490, <<915>>>>,
      <<120491, <<916>>>>, <<120492, <<917>>>>, <<120493, <<918>>>>, <<120494, <<919>>>>,
      <<120495, <<920>>>>, <<120496, <<921>>>>, <<120497, <<922>>>>, <<120498, <<923>>>>,
      <<120499, <<924>>>>, <<120500, <<925>>>>, <<120501, <<926>>>>, <<120502, <<927>>>>,
      <<120503, <<928>>>>, <<120504, <<929>>>>, <<120505, <<920>>>>, <<120506, <<931>>>>,
      <<120507, <<932>>>>, <<120508, <<933>>>>, <<120509, <<934>>>>, <<120510, <<935>>>>,
      <<120511, <<936>>>>, <<120512, <<937>>>>, <<120513, <<8711>>>>, <<120514, <<945>>>>,
      <<120515, <<946>>>>, <<120516, <<947>>>>, <<120517, <<948>>>>, <<120518, <<949>>>>,
      <<120519, <<950>>>>, <<120520, <<951>>>>, <<120521, <<952>>>>, <<120522, <<953>>>>,
      <<120523, <<954>>>>, <<120524, <<955>>>>, <<120525, <<956>>>>, <<120526, <<957>>>>,
      <<120527, <<958>>>>, <<120528, <<959>>>>, <<120529, <<960>>>>, <<120530, <<961>>>>,
      <<120531, <<962>>>>, <<120532, <<963>>>>, <<120533, <<964>>>>, <<120534, <<965>>>>,
      <<120535, <<966>>>>, <<120536, <<967>>>>, <<120537, <<968>>>>, <<120538, <<969>>>>,
      <<120539, <<8706>>>>, <<120540, <<949>>>>, <<120541, <<952>>>>, <<120542, <<954>>>>,
      <<120543, <<966>>>>, <<120544, <<961>>>>, <<120545, <<960>>>>, <<120546, <<913>>>>,
      <<120547, <<914>>>>, <<120548, <<915>>>>, <<120549, <<916>>>>, <<120550, <<917>>>>,
      <<120551, <<918>>>>, <<120552, <<919>>>>, <<120553, <<920>>>>, <<120554, <<921>>>>,
      <<120555, <<922>>>>, <<120556, <<923>>>>, <<120557, <<924>>>>, <<120558, <<925>>>>,
      <<120559, <<926>>>>, <<120560, <<927>>>>, <<120561, <<928>>>>, <<120562, <<929>>>>,
      <<120563, <<920>>>>, <<120564, <<931>>>>, <<120565, <<932>>>>, <<120566, <<933>>>>,
      <<120567, <<934>>>>, <<120568, <<935>>>>, <<120569, <<936>>>>, <<120570, <<937>>>>,
      <<120571, <<8711>>>>, <<120572, <<945>>>>, <<120573, <<946>>>>, <<120574, <<947>>>>,
      <<120575, <<948>>>>, <<120576, <<949>>>>, <<120577, <<950>>>>, <<120578, <<951>>>>,
      <<120579, <<952>>>>, <<120580, <<953>>>>, <<120581, <<954>>>>, <<120582, <<955>>>>,
      <<120583, <<956>>>>, <<120584, <<957>>>>, <<120585, <<958>>>>, <<120586, <<959>>>>,
      <<120587, <<960>>>>, <<120588, <<961>>>>, <<120589, <<962>>>>, <<120590, <<963>>>>,
      <<120591, <<964>>>>, <<120592, <<965>>>>, <<120593, <<966>>>>, <<120594, <<967>>>>,
      <<120595, <<968>>>>, <<120596, <<969>>>>, <<120597, <<8706>>>>, <<120598, <<949>>>>,
      <<120599, <<952>>>>, <<120600, <<954>>>>, <<120601, <<966>>>>, <<120602, <<961>>>>,
      <<120603, <<960>>>>, <<120604, <<913>>>>, <<120605, <<914>>>>, <<120606, <<915>>>>,
      <<120607, <<916>>>>, <<120608, <<917>>>>, <<120609, <<918>>>>, <<120610, <<919>>>>,
      <<120611, <<920>>>>, <<120612, <<921>>>>, <<120613, <<922>>>>, <<120614, <<923>>>>,
      <<120615, <<924>>>>, <<120616, <<925>>>>, <<120617, <<926>>>>, <<120618, <<927>>>>,
      <<120619, <<928>>>>, <<120620, <<929>>>>, <<120621, <<920>>>>, <<120622, <<931>>>>,
      <<120623, <<932>>>>, <<120624, <<933>>>>, <<120625, <<934>>>>, <<120626, <<935>>>>,
      <<120627, <<936>>>>, <<120628, <<937>>>>, <<120629, <<8711>>>>, <<120630, <<945>>>>,
      <<120631, <<946>>>>, <<120632, <<947>>>>, <<120633, <<948>>>>, <<120634, <<949>>>>,
      <<120635, <<950>>>>, <<120636, <<951>>>>, <<120637, <<952>>>>, <<120638, <<953>>>>,
      <<120639, <<954>>>>, <<120640, <<955>>>>, <<120641, <<956>>>>, <<120642, <<957>>>>,
      <<120643, <<958>>>>, <<120644, <<959>>>>, <<120645, <<960>>>>, <<120646, <<961>>>>,
      <<120647, <<962>>>>, <<120648, <<963>>>>, <<120649, <<964>>>>, <<120650, <<965>>>>,
      <<120651, <<966>>>>, <<120652, <<967>>>>, <<120653, <<968>>>>, <<120654, <<969>>>>,
      <<120655, <<8706>>>>, <<120656, <<949>>>>, <<120657, <<952>>>>, <<120658, <<954>>>>,
      <<120659, <<966>>>>, <<120660, <<961>>>>, <<120661, <<960>>>>, <<120662, <<913>>>>,
      <<120663, <<914>>>>, <<120664, <<915>>>>, <<120665, <<916>>>>, <<120666, <<917>>>>,
      <<120667, <<918>>>>, <<120668, <<919>>>>, <<120669, <<920>>>>, <<120670, <<921>>>>,
      <<120671, <<922>>>>, <<120672, <<923>>>>, <<120673, <<924>>>>, <<120674, <<925>>>>,
      <<120675, <<926>>>>, <<120676, <<927>>>>, <<120677, <<928>>>>, <<120678, <<929>>>>,
      <<120679, <<920>>>>, <<120680, <<931>>>>, <<120681, <<932>>>>, <<120682, <<933>>>>,
      <<120683, <<934>>>>, <<120684, <<935>>>>, <<120685, <<936>>>>, <<120686, <<937>>>>,
      <<120687, <<8711>>>>, <<120688, <<945>>>>, <<120689, <<946>>>>, <<120690, <<947>>>>,
      <<120691, <<948>>>>, <<120692, <<949>>>>, <<120693, <<950>>>>, <<120694, <<951>>>>,
      <<120695, <<952>>>>, <<120696, <<953>>>>, <<120697, <<954>>>>, <<120698, <<955>>>>,
      <<120699, <<956>>>>, <<120700, <<957>>>>, <<120701, <<958>>>>, <<120702, <<959>>>>,
      <<120703, <<960>>>>, <<120704, <<961>>>>, <<120705, <<962>>>>, <<120706, <<963>>>>,
      <<120707, <<964>>>>, <<120708, <<965>>>>, <<120709, <<966>>>>, <<120710, <<967>>>>,
      <<120711, <<968>>>>, <<120712, <<969>>>>, <<120713, <<8706>>>>, <<120714, <<949>>>>,
      <<120715, <<952>>>>, <<120716, <<954>>>>, <<120717, <<966>>>>, <<120718, <<961>>>>,
      <<120719, <<960>>>>, <<120720, <<913>>>>, <<120721, <<914>>>>, <<120722, <<915>>>>,
      <<120723, <<916>>>>, <<120724, <<917>>>>, <<120725, <<918>>>>, <<120726, <<919>>>>,
      <<120727, <<920>>>>, <<120728, <<921>>>>, <<120729, <<922>>>>, <<120730, <<923>>>>,
      <<120731, <<924>>>>, <<120732, <<925>>>>, <<120733, <<926>>>>, <<120734, <<927>>>>,
      <<120735, <<928>>>>, <<120736, <<929>>>>, <<120737, <<920>>>>, <<120738, <<931>>>>,
      <<120739, <<932>>>>, <<120740, <<933>>>>, <<120741, <<934>>>>, <<120742, <<935>>>>,
      <<120743, <<936>>>>, <<120744, <<937>>>>, <<120745, <<8711>>>>, <<120746, <<945>>>>,
      <<120747, <<946>>>>, <<120748, <<947>>>>, <<120749, <<948>>>>, <<120750, <<949>>>>,
      <<120751, <<950>>>>, <<120752, <<951>>>>, <<120753, <<952>>>>, <<120754, <<953>>>>,
      <<120755, <<954>>>>, <<120756, <<955>>>>, <<120757, <<956>>>>, <<120758, <<957>>>>,
      <<120759, <<958>>>>, <<120760, <<959>>>>, <<120761, <<960>>>>, <<120762, <<961>>>>,
      <<120763, <<962>>>>, <<120764, <<963>>>>, <<120765, <<964>>>>, <<120766, <<965>>>>,
      <<120767, <<966>>>>, <<120768, <<967>>>>, <<120769, <<968>>>>, <<120770, <<969>>>>,
      <<120771, <<8706>>>>, <<120772, <<949>>>>, <<120773, <<952>>>>, <<120774, <<954>>>>,
      <<120775, <<966>>>>, <<120776, <<961>>>>, <<120777, <<960>>>>, <<120782, <<48>>>>,
      <<120783, <<49>>>>, <<120784, <<50>>>>, <<120785, <<51>>>>, <<120786, <<52>>>>,
      <<120787, <<53>>>>, <<120788, <<54>>>>, <<120789, <<55>>>>, <<120790, <<56>>>>,
      <<120791, <<57>>>>, <<120792, <<48>>>>, <<120793, <<49>>>>, <<120794, <<50>>>>,
      <<120795, <<51>>>>, <<120796, <<52>>>>, <<120797, <<53>>>>, <<120798, <<54>>>>,
      <<120799, <<55>>>>, <<120800, <<56>>>>, <<120801, <<57>>>>, <<120802, <<48>>>>,
      <<120803, <<49>>>>, <<120804, <<50>>>>, <<120805, <<51>>>>, <<120806, <<52>>>>,
      <<120807, <<53>>>>, <<120808, <<54>>>>, <<120809, <<55>>>>, <<120810, <<56>>>>,
      <<120811, <<57>>>>, <<120812, <<48>>>>, <<120813, <<49>>>>, <<120814, <<50>>>>,
      <<120815, <<51>>>>, <<120816, <<52>>>>, <<120817, <<53>>>>, <<120818, <<54>>>>,
      <<120819, <<55>>>>, <<120820, <<56>>>>, <<120821, <<57>>>>, <<120822, <<48>>>>,
      <<120823, <<49>>>>, <<120824, <<50>>>>, <<120825, <<51>>>>, <<120826, <<52>>>>,
      <<120827, <<53>>>>, <<120828, <<54>>>>, <<120829, <<55>>>>, <<120830, <<56>>>>,
      <<120831, <<57>>>>, <<194560, <<20029>>>>, <<194561, <<20024>>>>, <<194562, <<20033>>>>,
      <<194563, <<131362>>>>, <<194564, <<20320>>>>, <<194565, <<20398>>>>, <<194566, <<20411>>>>,
      <<194567, <<20482>>>>, <<194568, <<20602>>>>, <<194569, <<20633>>>>, <<194570, <<20711>>>>,
      <<194571, <<20687>>>>, <<194572, <<13470>>>>, <<194573, <<132666>>>>, <<194574, <<20813>>>>,
      <<194575, <<20820>>>>, <<194576, <<20836>>>>, <<194577, <<20855>>>>, <<194578, <<132380>>>>,
      <<194579, <<13497>>>>, <<194580, <<20839>>>>, <<194581, <<20877>>>>, <<194582, <<132427>>>>,
      <<194583, <<20887>>>>, <<194584, <<20900>>>>, <<194585, <<20172>>>>, <<194586, <<20908>>>>,
      <<194587, <<20917>>>>, <<194588, <<168415>>>>, <<194589, <<20981>>>>, <<194590, <<20995>>>>,
      <<194591, <<13535>>>>, <<194592, <<21051>>>>, <<194593, <<21062>>>>, <<194594, <<21106>>>>,
      <<194595, <<21111>>>>, <<194596, <<13589>>>>, <<194597, <<21191>>>>, <<194598, <<21193>>>>,
      <<194599, <<21220>>>>, <<194600, <<21242>>>>, <<194601, <<21253>>>>, <<194602, <<21254>>>>,
      <<194603, <<21271>>>>, <<194604, <<21321>>>>, <<194605, <<21329>>>>, <<194606, <<21338>>>>,
      <<194607, <<21363>>>>, <<194608, <<21373>>>>, <<194609, <<21375>>>>, <<194610, <<21375>>>>,
      <<194611, <<21375>>>>, <<194612, <<133676>>>>, <<194613, <<28784>>>>, <<194614, <<21450>>>>,
      <<194615, <<21471>>>>, <<194616, <<133987>>>>, <<194617, <<21483>>>>, <<194618, <<21489>>>>,
      <<194619, <<21510>>>>, <<194620, <<21662>>>>, <<194621, <<21560>>>>, <<194622, <<21576>>>>,
      <<194623, <<21608>>>>, <<194624, <<21666>>>>, <<194625, <<21750>>>>, <<194626, <<21776>>>>,
      <<194627, <<21843>>>>, <<194628, <<21859>>>>, <<194629, <<21892>>>>, <<194630, <<21892>>>>,
      <<194631, <<21913>>>>, <<194632, <<21931>>>>, <<194633, <<21939>>>>, <<194634, <<21954>>>>,
      <<194635, <<22294>>>>, <<194636, <<22022>>>>, <<194637, <<22295>>>>, <<194638, <<22097>>>>,
      <<194639, <<22132>>>>, <<194640, <<20999>>>>, <<194641, <<22766>>>>, <<194642, <<22478>>>>,
      <<194643, <<22516>>>>, <<194644, <<22541>>>>, <<194645, <<22411>>>>, <<194646, <<22578>>>>,
      <<194647, <<22577>>>>, <<194648, <<22700>>>>, <<194649, <<136420>>>>, <<194650, <<22770>>>>,
      <<194651, <<22775>>>>, <<194652, <<22790>>>>, <<194653, <<22810>>>>, <<194654, <<22818>>>>,
      <<194655, <<22882>>>>, <<194656, <<136872>>>>, <<194657, <<136938>>>>, <<194658, <<23020>>>>,
      <<194659, <<23067>>>>, <<194660, <<23079>>>>, <<194661, <<23000>>>>, <<194662, <<23142>>>>,
      <<194663, <<14062>>>>, <<194664, <<136042>>>>, <<194665, <<23304>>>>, <<194666, <<23358>>>>,
      <<194667, <<23358>>>>, <<194668, <<137672>>>>, <<194669, <<23491>>>>, <<194670, <<23512>>>>,
      <<194671, <<23527>>>>, <<194672, <<23539>>>>, <<194673, <<138008>>>>, <<194674, <<23551>>>>,
      <<194675, <<23558>>>>, <<194676, <<24371>>>>, <<194677, <<23586>>>>, <<194678, <<14209>>>>,
      <<194679, <<23648>>>>, <<194680, <<23662>>>>, <<194681, <<23744>>>>, <<194682, <<23693>>>>,
      <<194683, <<138724>>>>, <<194684, <<23875>>>>, <<194685, <<138726>>>>, <<194686, <<23918>>>>,
      <<194687, <<23915>>>>, <<194688, <<23932>>>>, <<194689, <<24033>>>>, <<194690, <<24034>>>>,
      <<194691, <<14383>>>>, <<194692, <<24061>>>>, <<194693, <<24104>>>>, <<194694, <<24125>>>>,
      <<194695, <<24169>>>>, <<194696, <<14434>>>>, <<194697, <<139651>>>>, <<194698, <<14460>>>>,
      <<194699, <<24240>>>>, <<194700, <<24243>>>>, <<194701, <<24246>>>>, <<194702, <<24266>>>>,
      <<194703, <<172946>>>>, <<194704, <<24318>>>>, <<194705, <<140081>>>>, <<194706, <<140081>>>>,
      <<194707, <<33281>>>>, <<194708, <<24354>>>>, <<194709, <<24354>>>>, <<194710, <<14535>>>>,
      <<194711, <<144056>>>>, <<194712, <<156122>>>>, <<194713, <<24418>>>>, <<194714, <<24427>>>>,
      <<194715, <<14563>>>>, <<194716, <<24474>>>>, <<194717, <<24525>>>>, <<194718, <<24535>>>>,
      <<194719, <<24569>>>>, <<194720, <<24705>>>>, <<194721, <<14650>>>>, <<194722, <<14620>>>>,
      <<194723, <<24724>>>>, <<194724, <<141012>>>>, <<194725, <<24775>>>>, <<194726, <<24904>>>>,
      <<194727, <<24908>>>>, <<194728, <<24910>>>>, <<194729, <<24908>>>>, <<194730, <<24954>>>>,
      <<194731, <<24974>>>>, <<194732, <<25010>>>>, <<194733, <<24996>>>>, <<194734, <<25007>>>>,
      <<194735, <<25054>>>>, <<194736, <<25074>>>>, <<194737, <<25078>>>>, <<194738, <<25104>>>>,
      <<194739, <<25115>>>>, <<194740, <<25181>>>>, <<194741, <<25265>>>>, <<194742, <<25300>>>>,
      <<194743, <<25424>>>>, <<194744, <<142092>>>>, <<194745, <<25405>>>>, <<194746, <<25340>>>>,
      <<194747, <<25448>>>>, <<194748, <<25475>>>>, <<194749, <<25572>>>>, <<194750, <<142321>>>>,
      <<194751, <<25634>>>>, <<194752, <<25541>>>>, <<194753, <<25513>>>>, <<194754, <<14894>>>>,
      <<194755, <<25705>>>>, <<194756, <<25726>>>>, <<194757, <<25757>>>>, <<194758, <<25719>>>>,
      <<194759, <<14956>>>>, <<194760, <<25935>>>>, <<194761, <<25964>>>>, <<194762, <<143370>>>>,
      <<194763, <<26083>>>>, <<194764, <<26360>>>>, <<194765, <<26185>>>>, <<194766, <<15129>>>>,
      <<194767, <<26257>>>>, <<194768, <<15112>>>>, <<194769, <<15076>>>>, <<194770, <<20882>>>>,
      <<194771, <<20885>>>>, <<194772, <<26368>>>>, <<194773, <<26268>>>>, <<194774, <<32941>>>>,
      <<194775, <<17369>>>>, <<194776, <<26391>>>>, <<194777, <<26395>>>>, <<194778, <<26401>>>>,
      <<194779, <<26462>>>>, <<194780, <<26451>>>>, <<194781, <<144323>>>>, <<194782, <<15177>>>>,
      <<194783, <<26618>>>>, <<194784, <<26501>>>>, <<194785, <<26706>>>>, <<194786, <<26757>>>>,
      <<194787, <<144493>>>>, <<194788, <<26766>>>>, <<194789, <<26655>>>>, <<194790, <<26900>>>>,
      <<194791, <<15261>>>>, <<194792, <<26946>>>>, <<194793, <<27043>>>>, <<194794, <<27114>>>>,
      <<194795, <<27304>>>>, <<194796, <<145059>>>>, <<194797, <<27355>>>>, <<194798, <<15384>>>>,
      <<194799, <<27425>>>>, <<194800, <<145575>>>>, <<194801, <<27476>>>>, <<194802, <<15438>>>>,
      <<194803, <<27506>>>>, <<194804, <<27551>>>>, <<194805, <<27578>>>>, <<194806, <<27579>>>>,
      <<194807, <<146061>>>>, <<194808, <<138507>>>>, <<194809, <<146170>>>>, <<194810, <<27726>>>>,
      <<194811, <<146620>>>>, <<194812, <<27839>>>>, <<194813, <<27853>>>>, <<194814, <<27751>>>>,
      <<194815, <<27926>>>>, <<194816, <<27966>>>>, <<194817, <<28023>>>>, <<194818, <<27969>>>>,
      <<194819, <<28009>>>>, <<194820, <<28024>>>>, <<194821, <<28037>>>>, <<194822, <<146718>>>>,
      <<194823, <<27956>>>>, <<194824, <<28207>>>>, <<194825, <<28270>>>>, <<194826, <<15667>>>>,
      <<194827, <<28363>>>>, <<194828, <<28359>>>>, <<194829, <<147153>>>>, <<194830, <<28153>>>>,
      <<194831, <<28526>>>>, <<194832, <<147294>>>>, <<194833, <<147342>>>>, <<194834, <<28614>>>>,
      <<194835, <<28729>>>>, <<194836, <<28702>>>>, <<194837, <<28699>>>>, <<194838, <<15766>>>>,
      <<194839, <<28746>>>>, <<194840, <<28797>>>>, <<194841, <<28791>>>>, <<194842, <<28845>>>>,
      <<194843, <<132389>>>>, <<194844, <<28997>>>>, <<194845, <<148067>>>>, <<194846, <<29084>>>>,
      <<194847, <<17323>>>>, <<194848, <<29224>>>>, <<194849, <<29237>>>>, <<194850, <<29264>>>>,
      <<194851, <<149000>>>>, <<194852, <<29312>>>>, <<194853, <<29333>>>>, <<194854, <<149301>>>>,
      <<194855, <<149524>>>>, <<194856, <<29562>>>>, <<194857, <<29579>>>>, <<194858, <<16044>>>>,
      <<194859, <<29605>>>>, <<194860, <<16056>>>>, <<194861, <<16056>>>>, <<194862, <<29767>>>>,
      <<194863, <<29788>>>>, <<194864, <<29809>>>>, <<194865, <<29829>>>>, <<194866, <<29898>>>>,
      <<194867, <<16155>>>>, <<194868, <<29988>>>>, <<194869, <<150582>>>>, <<194870, <<30014>>>>,
      <<194871, <<150674>>>>, <<194872, <<30064>>>>, <<194873, <<139679>>>>, <<194874, <<30224>>>>,
      <<194875, <<151457>>>>, <<194876, <<151480>>>>, <<194877, <<151620>>>>, <<194878, <<16380>>>>,
      <<194879, <<16392>>>>, <<194880, <<30452>>>>, <<194881, <<151795>>>>, <<194882, <<151794>>>>,
      <<194883, <<151833>>>>, <<194884, <<151859>>>>, <<194885, <<30494>>>>, <<194886, <<30495>>>>,
      <<194887, <<30495>>>>, <<194888, <<30538>>>>, <<194889, <<16441>>>>, <<194890, <<30603>>>>,
      <<194891, <<16454>>>>, <<194892, <<16534>>>>, <<194893, <<152605>>>>, <<194894, <<30798>>>>,
      <<194895, <<30860>>>>, <<194896, <<30924>>>>, <<194897, <<16611>>>>, <<194898, <<153126>>>>,
      <<194899, <<31062>>>>, <<194900, <<153242>>>>, <<194901, <<153285>>>>, <<194902, <<31119>>>>,
      <<194903, <<31211>>>>, <<194904, <<16687>>>>, <<194905, <<31296>>>>, <<194906, <<31306>>>>,
      <<194907, <<31311>>>>, <<194908, <<153980>>>>, <<194909, <<154279>>>>, <<194910, <<154279>>>>,
      <<194911, <<31406>>>>, <<194912, <<16898>>>>, <<194913, <<154539>>>>, <<194914, <<31686>>>>,
      <<194915, <<31689>>>>, <<194916, <<16935>>>>, <<194917, <<154752>>>>, <<194918, <<31954>>>>,
      <<194919, <<17056>>>>, <<194920, <<31976>>>>, <<194921, <<31971>>>>, <<194922, <<32000>>>>,
      <<194923, <<155526>>>>, <<194924, <<32099>>>>, <<194925, <<17153>>>>, <<194926, <<32199>>>>,
      <<194927, <<32258>>>>, <<194928, <<32325>>>>, <<194929, <<17204>>>>, <<194930, <<156200>>>>,
      <<194931, <<156231>>>>, <<194932, <<17241>>>>, <<194933, <<156377>>>>, <<194934, <<32634>>>>,
      <<194935, <<156478>>>>, <<194936, <<32661>>>>, <<194937, <<32762>>>>, <<194938, <<32773>>>>,
      <<194939, <<156890>>>>, <<194940, <<156963>>>>, <<194941, <<32864>>>>, <<194942, <<157096>>>>,
      <<194943, <<32880>>>>, <<194944, <<144223>>>>, <<194945, <<17365>>>>, <<194946, <<32946>>>>,
      <<194947, <<33027>>>>, <<194948, <<17419>>>>, <<194949, <<33086>>>>, <<194950, <<23221>>>>,
      <<194951, <<157607>>>>, <<194952, <<157621>>>>, <<194953, <<144275>>>>, <<194954, <<144284>>>>,
      <<194955, <<33281>>>>, <<194956, <<33284>>>>, <<194957, <<36766>>>>, <<194958, <<17515>>>>,
      <<194959, <<33425>>>>, <<194960, <<33419>>>>, <<194961, <<33437>>>>, <<194962, <<21171>>>>,
      <<194963, <<33457>>>>, <<194964, <<33459>>>>, <<194965, <<33469>>>>, <<194966, <<33510>>>>,
      <<194967, <<158524>>>>, <<194968, <<33509>>>>, <<194969, <<33565>>>>, <<194970, <<33635>>>>,
      <<194971, <<33709>>>>, <<194972, <<33571>>>>, <<194973, <<33725>>>>, <<194974, <<33767>>>>,
      <<194975, <<33879>>>>, <<194976, <<33619>>>>, <<194977, <<33738>>>>, <<194978, <<33740>>>>,
      <<194979, <<33756>>>>, <<194980, <<158774>>>>, <<194981, <<159083>>>>, <<194982, <<158933>>>>,
      <<194983, <<17707>>>>, <<194984, <<34033>>>>, <<194985, <<34035>>>>, <<194986, <<34070>>>>,
      <<194987, <<160714>>>>, <<194988, <<34148>>>>, <<194989, <<159532>>>>, <<194990, <<17757>>>>,
      <<194991, <<17761>>>>, <<194992, <<159665>>>>, <<194993, <<159954>>>>, <<194994, <<17771>>>>,
      <<194995, <<34384>>>>, <<194996, <<34396>>>>, <<194997, <<34407>>>>, <<194998, <<34409>>>>,
      <<194999, <<34473>>>>, <<195000, <<34440>>>>, <<195001, <<34574>>>>, <<195002, <<34530>>>>,
      <<195003, <<34681>>>>, <<195004, <<34600>>>>, <<195005, <<34667>>>>, <<195006, <<34694>>>>,
      <<195007, <<19799>>>>, <<195008, <<34785>>>>, <<195009, <<34817>>>>, <<195010, <<17913>>>>,
      <<195011, <<34912>>>>, <<195012, <<34915>>>>, <<195013, <<161383>>>>, <<195014, <<35031>>>>,
      <<195015, <<35038>>>>, <<195016, <<17973>>>>, <<195017, <<35066>>>>, <<195018, <<13499>>>>,
      <<195019, <<161966>>>>, <<195020, <<162150>>>>, <<195021, <<18110>>>>, <<195022, <<18119>>>>,
      <<195023, <<35488>>>>, <<195024, <<35565>>>>, <<195025, <<35722>>>>, <<195026, <<35925>>>>,
      <<195027, <<162984>>>>, <<195028, <<36011>>>>, <<195029, <<36033>>>>, <<195030, <<36123>>>>,
      <<195031, <<36215>>>>, <<195032, <<163631>>>>, <<195033, <<133124>>>>, <<195034, <<36299>>>>,
      <<195035, <<36284>>>>, <<195036, <<36336>>>>, <<195037, <<133342>>>>, <<195038, <<36564>>>>,
      <<195039, <<36664>>>>, <<195040, <<165330>>>>, <<195041, <<165357>>>>, <<195042, <<37012>>>>,
      <<195043, <<37105>>>>, <<195044, <<37137>>>>, <<195045, <<165678>>>>, <<195046, <<37147>>>>,
      <<195047, <<37432>>>>, <<195048, <<37591>>>>, <<195049, <<37592>>>>, <<195050, <<37500>>>>,
      <<195051, <<37881>>>>, <<195052, <<37909>>>>, <<195053, <<166906>>>>, <<195054, <<38283>>>>,
      <<195055, <<18837>>>>, <<195056, <<38327>>>>, <<195057, <<167287>>>>, <<195058, <<18918>>>>,
      <<195059, <<38595>>>>, <<195060, <<23986>>>>, <<195061, <<38691>>>>, <<195062, <<168261>>>>,
      <<195063, <<168474>>>>, <<195064, <<19054>>>>, <<195065, <<19062>>>>, <<195066, <<38880>>>>,
      <<195067, <<168970>>>>, <<195068, <<19122>>>>, <<195069, <<169110>>>>, <<195070, <<38923>>>>,
      <<195071, <<38923>>>>, <<195072, <<38953>>>>, <<195073, <<169398>>>>, <<195074, <<39138>>>>,
      <<195075, <<19251>>>>, <<195076, <<39209>>>>, <<195077, <<39335>>>>, <<195078, <<39362>>>>,
      <<195079, <<39422>>>>, <<195080, <<19406>>>>, <<195081, <<170800>>>>, <<195082, <<39698>>>>,
      <<195083, <<40000>>>>, <<195084, <<40189>>>>, <<195085, <<19662>>>>, <<195086, <<19693>>>>,
      <<195087, <<40295>>>>, <<195088, <<172238>>>>, <<195089, <<19704>>>>, <<195090, <<172293>>>>,
      <<195091, <<172558>>>>, <<195092, <<172689>>>>, <<195093, <<40635>>>>, <<195094, <<19798>>>>,
      <<195095, <<40697>>>>, <<195096, <<40702>>>>, <<195097, <<40709>>>>, <<195098, <<40719>>>>,
      <<195099, <<40726>>>>, <<195100, <<40763>>>>, <<195101, <<173568>>>>>>

\* unicodedata: the ranges <<first, last, canonical combining class>> of the
\* characters whose class is not 0.
CombiningClasses ==
    <<<<768, 788, 230>>, <<789, 789, 232>>, <<790, 793, 220>>, <<794, 794, 232>>, <<795, 795, 216>>,
      <<796, 800, 220>>, <<801, 802, 202>>, <<803, 806, 220>>, <<807, 808, 202>>, <<809, 819, 220>>,
      <<820, 824, 1>>, <<825, 828, 220>>, <<829, 836, 230>>, <<837, 837, 240>>, <<838, 838, 230>>,
      <<839, 841, 220>>, <<842, 844, 230>>, <<845, 846, 220>>, <<848, 850, 230>>, <<851, 854, 220>>,
      <<855, 855, 230>>, <<856, 856, 232>>, <<857, 858, 220>>, <<859, 859, 230>>, <<860, 860, 233>>,
      <<861, 862, 234>>, <<863, 863, 233>>, <<864, 865, 234>>, <<866, 866, 233>>, <<867, 879, 230>>,
      <<1155, 1159, 230>>, <<1425, 1425, 220>>, <<1426, 1429, 230>>, <<1430, 1430, 220>>,
      <<1431, 1433, 230>>, <<1434, 1434, 222>>, <<1435, 1435, 220>>, <<1436, 1441, 230>>,
      <<1442, 1447, 220>>, <<1448, 1449, 230>>, <<1450, 1450, 220>>, <<1451, 1452, 230>>,
      <<1453, 1453, 222>>, <<1454, 1454, 228>>, <<1455, 1455, 230>>, <<1456, 1456, 10>>,
      <<1457, 1457, 11>>, <<1458, 1458, 12>>, <<1459, 1459, 13>>, <<1460, 1460, 14>>,
      <<1461, 1461, 15>>, <<1462, 1462, 16>>, <<1463, 1463, 17>>, <<1464, 1464, 18>>,
      <<1465, 1466, 19>>, <<1467, 1467, 20>>, <<1468, 1468, 21>>, <<1469, 1469, 22>>,
      <<1471, 1471, 23>>, <<1473, 1473, 24>>, <<1474, 1474, 25>>, <<1476, 1476, 230>>,
      <<1477, 1477, 220>>, <<1479, 1479, 18>>, <<1552, 1559, 230>>, <<1560, 1560, 30>>,
      <<1561, 1561, 31>>, <<1562, 1562, 32>>, <<1611, 1611, 27>>, <<1612, 1612, 28>>,
      <<1613, 1613, 29>>, <<1614, 1614, 30>>, <<1615, 1615, 31>>, <<1616, 1616, 32>>,
      <<1617, 1617, 33>>, <<1618, 1618, 34>>, <<1619, 1620, 230>>, <<1621, 1622, 220>>,
      <<1623, 1627, 230>>, <<1628, 1628, 220>>, <<1629, 1630, 230>>, <<1631, 1631, 220>>,
      <<1648, 1648, 35>>, <<1750, 1756, 230>>, <<1759, 1762, 230>>, <<1763, 1763, 220>>,
      <<1764, 1764, 230>>, <<1767, 1768, 230>>, <<1770, 1770, 220>>, <<1771, 1772, 230>>,
      <<1773, 1773, 220>>, <<1809, 1809, 36>>, <<1840, 1840, 230>>, <<1841, 1841, 220>>,
      <<1842, 1843, 230>>, <<1844, 1844, 220>>, <<1845, 1846, 230>>, <<1847, 1849, 220>>,
      <<1850, 1850, 230>>, <<1851, 1852, 220>>, <<1853, 1853, 230>>, <<1854, 1854, 220>>,
      <<1855, 1857, 230>>, <<1858, 1858, 220>>, <<1859, 1859, 230>>, <<1860, 1860, 220>>,
      <<1861, 1861, 230>>, <<1862, 1862, 220>>, <<1863, 1863, 230>>, <<1864, 1864, 220>>,
      <<1865, 1866, 230>>, <<2027, 2033, 230>>, <<2034, 2034, 220>>, <<2035, 2035, 230>>,
      <<2045, 2045, 220>>, <<2070, 2073, 230>>, <<2075, 2083, 230>>, <<2085, 2087, 230>>,
      <<2089, 2093, 230>>, <<2137, 2139, 220>>, <<2200, 2200, 230>>, <<2201, 2203, 220>>,
      <<2204, 2207, 230>>, <<2250, 2254, 230>>, <<2255, 2259, 220>>, <<2260, 2273, 230>>,
      <<2275, 2275, 220>>, <<2276, 2277, 230>>, <<2278, 2278, 220>>, <<2279, 2280, 230>>,
      <<2281, 2281, 220>>, <<2282, 2284, 230>>, <<2285, 2287, 220>>, <<2288, 2288, 27>>,
      <<2289, 2289, 28>>, <<2290, 2290, 29>>, <<2291, 2293, 230>>, <<2294, 2294, 220>>,
      <<2295, 2296, 230>>, <<2297, 2298, 220>>, <<2299, 2303, 230>>, <<2364, 2364, 7>>,
      <<2381, 2381, 9>>, <<2385, 2385, 230>>, <<2386, 2386, 220>>, <<2387, 2388, 230>>,
      <<2492, 2492, 7>>, <<2509, 2509, 9>>, <<2558, 2558, 230>>, <<2620, 2620, 7>>,
      <<2637, 2637, 9>>, <<2748, 2748, 7>>, <<2765, 2765, 9>>, <<2876, 2876, 7>>, <<2893, 2893, 9>>,
      <<3021, 3021, 9>>, <<3132, 3132, 7>>, <<3149, 3149, 9>>, <<3157, 3157, 84>>,
      <<3158, 3158, 91>>, <<3260, 3260, 7>>, <<3277, 3277, 9>>, <<3387, 3388, 9>>, <<3405, 3405, 9>>,
      <<3530, 3530, 9>>, <<3640, 3641, 103>>, <<3642, 3642, 9>>, <<3656, 3659, 107>>,
      <<3768, 3769, 118>>, <<3770, 3770, 9>>, <<3784, 3787, 122>>, <<3864, 3865, 220>>,
      <<3893, 3893, 220>>, <<3895, 3895, 220>>, <<3897, 3897, 216>>, <<3953, 3953, 129>>,
      <<3954, 3954, 130>>, <<3956, 3956, 132>>, <<3962, 3965, 130>>, <<3968, 3968, 130>>,
      <<3970, 3971, 230>>, <<3972, 3972, 9>>, <<3974, 3975, 230>>, <<4038, 4038, 220>>,
      <<4151, 4151, 7>>, <<4153, 4154, 9>>, <<4237, 4237, 220>>, <<4957, 4959, 230>>,
      <<5908, 5909, 9>>, <<5940, 5940, 9>>, <<6098, 6098, 9>>, <<6109, 6109, 230>>,
      <<6313, 6313, 228>>, <<6457, 6457, 222>>, <<6458, 6458, 230>>, <<6459, 6459, 220>>,
      <<6679, 6679, 230>>, <<6680, 6680, 220>>, <<6752, 6752, 9>>, <<6773, 6780, 230>>,
      <<6783, 6783, 220>>, <<6832, 6836, 230>>, <<6837, 6842, 220>>, <<6843, 6844, 230>>,
      <<6845, 6845, 220>>, <<6847, 6848, 220>>, <<6849, 6850, 230>>, <<6851, 6852, 220>>,
      <<6853, 6857, 230>>, <<6858, 6858, 220>>, <<6859, 6862, 230>>, <<6964, 6964, 7>>,
      <<6980, 6980, 9>>, <<7019, 7019, 230>>, <<7020, 7020, 220>>, <<7021, 7027, 230>>,
      <<7082, 7083, 9>>, <<7142, 7142, 7>>, <<7154, 7155, 9>>, <<7223, 7223, 7>>,
      <<7376, 7378, 230>>, <<7380, 7380, 1>>, <<7381, 7385, 220>>, <<7386, 7387, 230>>,
      <<7388, 7391, 220>>, <<7392, 7392, 230>>, <<7394, 7400, 1>>, <<7405, 7405, 220>>,
      <<7412, 7412, 230>>, <<7416, 7417, 230>>, <<7616, 7617, 230>>, <<7618, 7618, 220>>,
      <<7619, 7625, 230>>, <<7626, 7626, 220>>, <<7627, 7628, 230>>, <<7629, 7629, 234>>,
      <<7630, 7630, 214>>, <<7631, 7631, 220>>, <<7632, 7632, 202>>, <<7633, 7669, 230>>,
      <<7670, 7670, 232>>, <<7671, 7672, 228>>, <<7673, 7673, 220>>, <<7674, 7674, 218>>,
      <<7675, 7675, 230>>, <<7676, 7676, 233>>, <<7677, 7677, 220>>, <<7678, 7678, 230>>,
      <<7679, 7679, 220>>, <<8400, 8401, 230>>, <<8402, 8403, 1>>, <<8404, 8407, 230>>,
      <<8408, 8410, 1>>, <<8411, 8412, 230>>, <<8417, 8417, 230>>, <<8421, 8422, 1>>,
      <<8423, 8423, 230>>, <<8424, 8424, 220>>, <<8425, 8425, 230>>, <<8426, 8427, 1>>,
      <<8428, 8431, 220>>, <<8432, 8432, 230>>, <<11503, 11505, 230>>, <<11647, 11647, 9>>,
      <<11744, 11775, 230>>, <<12330, 12330, 218>>, <<12331, 12331, 228>>, <<12332, 12332, 232>>,
      <<12333, 12333, 222>>, <<12334, 12335, 224>>, <<12441, 12442, 8>>, <<42607, 42607, 230>>,
      <<42612, 42621, 230>>, <<42654, 42655, 230>>, <<42736, 42737, 230>>, <<43014, 43014, 9>>,
      <<43052, 43052, 9>>, <<43204, 43204, 9>>, <<43232, 43249, 230>>, <<43307, 43309, 220>>,
      <<43347, 43347, 9>>, <<43443, 43443, 7>>, <<43456, 43456, 9>>, <<43696, 43696, 230>>,
      <<43698, 43699, 230>>, <<43700, 43700, 220>>, <<43703, 43704, 230>>, <<43710, 43711, 230>>,
      <<43713, 43713, 230>>, <<43766, 43766, 9>>, <<44013, 44013, 9>>, <<64286, 64286, 26>>,
      <<65056, 65062, 230>>, <<65063, 65069, 220>>, <<65070, 65071, 230>>, <<66045, 66045, 220>>,
      <<66272, 66272, 220>>, <<66422, 66426, 230>>, <<68109, 68109, 220>>, <<68111, 68111, 230>>,
      <<68152, 68152, 230>>, <<68153, 68153, 1>>, <<68154, 68154, 220>>, <<68159, 68159, 9>>,
      <<68325, 68325, 230>>, <<68326, 68326, 220>>, <<68900, 68903, 230>>, <<69291, 69292, 230>>,
      <<69446, 69447, 220>>, <<69448, 69450, 230>>, <<69451, 69451, 220>>, <<69452, 69452, 230>>,
      <<69453, 69456, 220>>, <<69506, 69506, 230>>, <<69507, 69507, 220>>, <<69508, 69508, 230>>,
      <<69509, 69509, 220>>, <<69702, 69702, 9>>, <<69744, 69744, 9>>, <<69759, 69759, 9>>,
      <<69817, 69817, 9>>, <<69818, 69818, 7>>, <<69888, 69890, 230>>, <<69939, 69940, 9>>,
      <<70003, 70003, 7>>, <<70080, 70080, 9>>, <<70090, 70090, 7>>, <<70197, 70197, 9>>,
      <<70198, 70198, 7>>, <<70377, 70377, 7>>, <<70378, 70378, 9>>, <<70459, 70460, 7>>,
      <<70477, 70477, 9>>, <<70502, 70508, 230>>, <<70512, 70516, 230>>, <<70722, 70722, 9>>,
      <<70726, 70726, 7>>, <<70750, 70750, 230>>, <<70850, 70850, 9>>, <<70851, 70851, 7>>,
      <<71103, 71103, 9>>, <<71104, 71104, 7>>, <<71231, 71231, 9>>, <<71350, 71350, 9>>,
      <<71351, 71351, 7>>, <<71467, 71467, 9>>, <<71737, 71737, 9>>, <<71738, 71738, 7>>,
      <<71997, 71998, 9>>, <<72003, 72003, 7>>, <<72160, 72160, 9>>, <<72244, 72244, 9>>,
      <<72263, 72263, 9>>, <<72345, 72345, 9>>, <<72767, 72767, 9>>, <<73026, 73026, 7>>,
      <<73028, 73029, 9>>, <<73111, 73111, 9>>, <<92912, 92916, 1>>, <<92976, 92982, 230>>,
      <<94192, 94193, 6>>, <<113822, 113822, 1>>, <<119141, 119142, 216>>, <<119143, 119145, 1>>,
      <<119149, 119149, 226>>, <<119150, 119154, 216>>, <<119163, 119170, 220>>,
      <<119173, 119177, 230>>, <<119178, 119179, 220>>, <<119210, 119213, 230>>,
      <<119362, 119364, 230>>, <<122880, 122886, 230>>, <<122888, 122904, 230>>,
      <<122907, 122913, 230>>, <<122915, 122916, 230>>, <<122918, 122922, 230>>,
      <<123184, 123190, 230>>, <<123566, 123566, 230>>, <<123628, 123631, 230>>,
      <<125136, 125142, 220>>, <<125252, 125257, 230>>, <<125258, 125258, 7>>>>

\* unicodedata: <<first, second, the character the two are composed to>>, by
\* first and second.
Compositions ==
    <<<<60, 824, 8814>>, <<61, 824, 8800>>, <<62, 824, 8815>>, <<65, 768, 192>>, <<65, 769, 193>>,
      <<65, 770, 194>>, <<65, 771, 195>>, <<65, 772, 256>>, <<65, 774, 258>>, <<65, 775, 550>>,
      <<65, 776, 196>>, <<65, 777, 7842>>, <<65, 778, 197>>, <<65, 780, 461>>, <<65, 783, 512>>,
      <<65, 785, 514>>, <<65, 803, 7840>>, <<65, 805, 7680>>, <<65, 808, 260>>, <<66, 775, 7682>>,
      <<66, 803, 7684>>, <<66, 817, 7686>>, <<67, 769, 262>>, <<67, 770, 264>>, <<67, 775, 266>>,
      <<67, 780, 268>>, <<67, 807, 199>>, <<68, 775, 7690>>, <<68, 780, 270>>, <<68, 803, 7692>>,
      <<68, 807, 7696>>, <<68, 813, 7698>>, <<68, 817, 7694>>, <<69, 768, 200>>, <<69, 769, 201>>,
      <<69, 770, 202>>, <<69, 771, 7868>>, <<69, 772, 274>>, <<69, 774, 276>>, <<69, 775, 278>>,
      <<69, 776, 203>>, <<69, 777, 7866>>, <<69, 780, 282>>, <<69, 783, 516>>, <<69, 785, 518>>,
      <<69, 803, 7864>>, <<69, 807, 552>>, <<69, 808, 280>>, <<69, 813, 7704>>, <<69, 816, 7706>>,
      <<70, 775, 7710>>, <<71, 769, 500>>, <<71, 770, 284>>, <<71, 772, 7712>>, <<71, 774, 286>>,
      <<71, 775, 288>>, <<71, 780, 486>>, <<71, 807, 290>>, <<72, 770, 292>>, <<72, 775, 7714>>,
      <<72, 776, 7718>>, <<72, 780, 542>>, <<72, 803, 7716>>, <<72, 807, 7720>>, <<72, 814, 7722>>,
      <<73, 768, 204>>, <<73, 769, 205>>, <<73, 770, 206>>, <<73, 771, 296>>, <<73, 772, 298>>,
      <<73, 774, 300>>, <<73, 775, 304>>, <<73, 776, 207>>, <<73, 777, 7880>>, <<73, 780, 463>>,
      <<73, 783, 520>>, <<73, 785, 522>>, <<73, 803, 7882>>, <<73, 808, 302>>, <<73, 816, 7724>>,
      <<74, 770, 308>>, <<75, 769, 7728>>, <<75, 780, 488>>, <<75, 803, 7730>>, <<75, 807, 310>>,
      <<75, 817, 7732>>, <<76, 769, 313>>, <<76, 780, 317>>, <<76, 803, 7734>>, <<76, 807, 315>>,
      <<76, 813, 7740>>, <<76, 817, 7738>>, <<77, 769, 7742>>, <<77, 775, 7744>>, <<77, 803, 7746>>,
      <<78, 768, 504>>, <<78, 769, 323>>, <<78, 771, 209>>, <<78, 775, 7748>>, <<78, 780, 327>>,
      <<78, 803, 7750>>, <<78, 807, 325>>, <<78, 813, 7754>>, <<78, 817, 7752>>, <<79, 768, 210>>,
      <<79, 769, 211>>, <<79, 770, 212>>, <<79, 771, 213>>, <<79, 772, 332>>, <<79, 774, 334>>,
      <<79, 775, 558>>, <<79, 776, 214>>, <<79, 777, 7886>>, <<79, 779, 336>>, <<79, 780, 465>>,
      <<79, 783, 524>>, <<79, 785, 526>>, <<79, 795, 416>>, <<79, 803, 7884>>, <<79, 808, 490>>,
      <<80, 769, 7764>>, <<80, 775, 7766>>, <<82, 769, 340>>, <<82, 775, 7768>>, <<82, 780, 344>>,
      <<82, 783, 528>>, <<82, 785, 530>>, <<82, 803, 7770>>, <<82, 807, 342>>, <<82, 817, 7774>>,
      <<83, 769, 346>>, <<83, 770, 348>>, <<83, 775, 7776>>, <<83, 780, 352>>, <<83, 803, 7778>>,
      <<83, 806, 536>>, <<83, 807, 350>>, <<84, 775, 7786>>, <<84, 780, 356>>, <<84, 803, 7788>>,
      <<84, 806, 538>>, <<84, 807, 354>>, <<84, 813, 7792>>, <<84, 817, 7790>>, <<85, 768, 217>>,
      <<85, 769, 218>>, <<85, 770, 219>>, <<85, 771, 360>>, <<85, 772, 362>>, <<85, 774, 364>>,
      <<85, 776, 220>>, <<85, 777, 7910>>, <<85, 778, 366>>, <<85, 779, 368>>, <<85, 780, 467>>,
      <<85, 783, 532>>, <<85, 785, 534>>, <<85, 795, 431>>, <<85, 803, 7908>>, <<85, 804, 7794>>,
      <<85, 808, 370>>, <<85, 813, 7798>>, <<85, 816, 7796>>, <<86, 771, 7804>>, <<86, 803, 7806>>,
      <<87, 768, 7808>>, <<87, 769, 7810>>, <<87, 770, 372>>, <<87, 775, 7814>>, <<87, 776, 7812>>,
      <<87, 803, 7816>>, <<88, 775, 7818>>, <<88, 776, 7820>>, <<89, 768, 7922>>, <<89, 769, 221>>,
      <<89, 770, 374>>, <<89, 771, 7928>>, <<89, 772, 562>>, <<89, 775, 7822>>, <<89, 776, 376>>,
      <<89, 777, 7926>>, <<89, 803, 7924>>, <<90, 769, 377>>, <<90, 770, 7824>>, <<90, 775, 379>>,
      <<90, 780, 381>>, <<90, 803, 7826>>, <<90, 817, 7828>>, <<97, 768, 224>>, <<97, 769, 225>>,
      <<97, 770, 226>>, <<97, 771, 227>>, <<97, 772, 257>>, <<97, 774, 259>>, <<97, 775, 551>>,
      <<97, 776, 228>>, <<97, 777, 7843>>, <<97, 778, 229>>, <<97, 780, 462>>, <<97, 783, 513>>,
      <<97, 785, 515>>, <<97, 803, 7841>>, <<97, 805, 7681>>, <<97, 808, 261>>, <<98, 775, 7683>>,
      <<98, 803, 7685>>, <<98, 817, 7687>>, <<99, 769, 263>>, <<99, 770, 265>>, <<99, 775, 267>>,
      <<99, 780, 269>>, <<99, 807, 231>>, <<100, 775, 7691>>, <<100, 780, 271>>, <<100, 803, 7693>>,
      <<100, 807, 7697>>, <<100, 813, 7699>>, <<100, 817, 7695>>, <<101, 768, 232>>,
      <<101, 769, 233>>, <<101, 770, 234>>, <<101, 771, 7869>>, <<101, 772, 275>>, <<101, 774, 277>>,
      <<101, 775, 279>>, <<101, 776, 235>>, <<101, 777, 7867>>, <<101, 780, 283>>, <<101, 783, 517>>,
      <<101, 785, 519>>, <<101, 803, 7865>>, <<101, 807, 553>>, <<101, 808, 281>>,
      <<101, 813, 7705>>, <<101, 816, 7707>>, <<102, 775, 7711>>, <<103, 769, 501>>,
      <<103, 770, 285>>, <<103, 772, 7713>>, <<103, 774, 287>>, <<103, 775, 289>>, <<103, 780, 487>>,
      <<103, 807, 291>>, <<104, 770, 293>>, <<104, 775, 7715>>, <<104, 776, 7719>>,
      <<104, 780, 543>>, <<104, 803, 7717>>, <<104, 807, 7721>>, <<104, 814, 7723>>,
      <<104, 817, 7830>>, <<105, 768, 236>>, <<105, 769, 237>>, <<105, 770, 238>>, <<105, 771, 297>>,
      <<105, 772, 299>>, <<105, 774, 301>>, <<105, 776, 239>>, <<105, 777, 7881>>, <<105, 780, 464>>,
      <<105, 783, 521>>, <<105, 785, 523>>, <<105, 803, 7883>>, <<105, 808, 303>>,
      <<105, 816, 7725>>, <<106, 770, 309>>, <<106, 780, 496>>, <<107, 769, 7729>>,
      <<107, 780, 489>>, <<107, 803, 7731>>, <<107, 807, 311>>, <<107, 817, 7733>>,
      <<108, 769, 314>>, <<108, 780, 318>>, <<108, 803, 7735>>, <<108, 807, 316>>,
      <<108, 813, 7741>>, <<108, 817, 7739>>, <<109, 769, 7743>>, <<109, 775, 7745>>,
      <<109, 803, 7747>>, <<110, 768, 505>>, <<110, 769, 324>>, <<110, 771, 241>>,
      <<110, 775, 7749>>, <<110, 780, 328>>, <<110, 803, 7751>>, <<110, 807, 326>>,
      <<110, 813, 7755>>, <<110, 817, 7753>>, <<111, 768, 242>>, <<111, 769, 243>>,
      <<111, 770, 244>>, <<111, 771, 245>>, <<111, 772, 333>>, <<111, 774, 335>>, <<111, 775, 559>>,
      <<111, 776, 246>>, <<111, 777, 7887>>, <<111, 779, 337>>, <<111, 780, 466>>, <<111, 783, 525>>,
      <<111, 785, 527>>, <<111, 795, 417>>, <<111, 803, 7885>>, <<111, 808, 491>>,
      <<112, 769, 7765>>, <<112, 775, 7767>>, <<114, 769, 341>>, <<114, 775, 7769>>,
      <<114, 780, 345>>, <<114, 783, 529>>, <<114, 785, 531>>, <<114, 803, 7771>>, <<114, 807, 343>>,
      <<114, 817, 7775>>, <<115, 769, 347>>, <<115, 770, 349>>, <<115, 775, 7777>>,
      <<115, 780, 353>>, <<115, 803, 7779>>, <<115, 806, 537>>, <<115, 807, 351>>,
      <<116, 775, 7787>>, <<116, 776, 7831>>, <<116, 780, 357>>, <<116, 803, 7789>>,
      <<116, 806, 539>>, <<116, 807, 355>>, <<116, 813, 7793>>, <<116, 817, 7791>>,
      <<117, 768, 249>>, <<117, 769, 250>>, <<117, 770, 251>>, <<117, 771, 361>>, <<117, 772, 363>>,
      <<117, 774, 365>>, <<117, 776, 252>>, <<117, 777, 7911>>, <<117, 778, 367>>, <<117, 779, 369>>,
      <<117, 780, 468>>, <<117, 783, 533>>, <<117, 785, 535>>, <<117, 795, 432>>, <<117, 803, 7909>>,
      <<117, 804, 7795>>, <<117, 808, 371>>, <<117, 813, 7799>>, <<117, 816, 7797>>,
      <<118, 771, 7805>>, <<118, 803, 7807>>, <<119, 768, 7809>>, <<119, 769, 7811>>,
      <<119, 770, 373>>, <<119, 775, 7815>>, <<119, 776, 7813>>, <<119, 778, 7832>>,
      <<119, 803, 7817>>, <<120, 775, 7819>>, <<120, 776, 7821>>, <<121, 768, 7923>>,
      <<121, 769, 253>>, <<121, 770, 375>>, <<121, 771, 7929>>, <<121, 772, 563>>,
      <<121, 775, 7823>>, <<121, 776, 255>>, <<121, 777, 7927>>, <<121, 778, 7833>>,
      <<121, 803, 7925>>, <<122, 769, 378>>, <<122, 770, 7825>>, <<122, 775, 380>>,
      <<122, 780, 382>>, <<122, 803, 7827>>, <<122, 817, 7829>>, <<168, 768, 8173>>,
      <<168, 769, 901>>, <<168, 834, 8129>>, <<194, 768, 7846>>, <<194, 769, 7844>>,
      <<194, 771, 7850>>, <<194, 777, 7848>>, <<196, 772, 478>>, <<197, 769, 506>>,
      <<198, 769, 508>>, <<198, 772, 482>>, <<199, 769, 7688>>, <<202, 768, 7872>>,
      <<202, 769, 7870>>, <<202, 771, 7876>>, <<202, 777, 7874>>, <<207, 769, 7726>>,
      <<212, 768, 7890>>, <<212, 769, 7888>>, <<212, 771, 7894>>, <<212, 777, 7892>>,
      <<213, 769, 7756>>, <<213, 772, 556>>, <<213, 776, 7758>>, <<214, 772, 554>>,
      <<216, 769, 510>>, <<220, 768, 475>>, <<220, 769, 471>>, <<220, 772, 469>>, <<220, 780, 473>>,
      <<226, 768, 7847>>, <<226, 769, 7845>>, <<226, 771, 7851>>, <<226, 777, 7849>>,
      <<228, 772, 479>>, <<229, 769, 507>>, <<230, 769, 509>>, <<230, 772, 483>>, <<231, 769, 7689>>,
      <<234, 768, 7873>>, <<234, 769, 7871>>, <<234, 771, 7877>>, <<234, 777, 7875>>,
      <<239, 769, 7727>>, <<244, 768, 7891>>, <<244, 769, 7889>>, <<244, 771, 7895>>,
      <<244, 777, 7893>>, <<245, 769, 7757>>, <<245, 772, 557>>, <<245, 776, 7759>>,
      <<246, 772, 555>>, <<248, 769, 511>>, <<252, 768, 476>>, <<252, 769, 472>>, <<252, 772, 470>>,
      <<252, 780, 474>>, <<258, 768, 7856>>, <<258, 769, 7854>>, <<258, 771, 7860>>,
      <<258, 777, 7858>>, <<259, 768, 7857>>, <<259, 769, 7855>>, <<259, 771, 7861>>,
      <<259, 777, 7859>>, <<274, 768, 7700>>, <<274, 769, 7702>>, <<275, 768, 7701>>,
      <<275, 769, 7703>>, <<332, 768, 7760>>, <<332, 769, 7762>>, <<333, 768, 7761>>,
      <<333, 769, 7763>>, <<346, 775, 7780>>, <<347, 775, 7781>>, <<352, 775, 7782>>,
      <<353, 775, 7783>>, <<360, 769, 7800>>, <<361, 769, 7801>>, <<362, 776, 7802>>,
      <<363, 776, 7803>>, <<383, 775, 7835>>, <<416, 768, 7900>>, <<416, 769, 7898>>,
      <<416, 771, 7904>>, <<416, 777, 7902>>, <<416, 803, 7906>>, <<417, 768, 7901>>,
      <<417, 769, 7899>>, <<417, 771, 7905>>, <<417, 777, 7903>>, <<417, 803, 7907>>,
      <<431, 768, 7914>>, <<431, 769, 7912>>, <<431, 771, 7918>>, <<431, 777, 7916>>,
      <<431, 803, 7920>>, <<432, 768, 7915>>, <<432, 769, 7913>>, <<432, 771, 7919>>,
      <<432, 777, 7917>>, <<432, 803, 7921>>, <<439, 780, 494>>, <<490, 772, 492>>,
      <<491, 772, 493>>, <<550, 772, 480>>, <<551, 772, 481>>, <<552, 774, 7708>>,
      <<553, 774, 7709>>, <<558, 772, 560>>, <<559, 772, 561>>, <<658, 780, 495>>,
      <<913, 768, 8122>>, <<913, 769, 902>>, <<913, 772, 8121>>, <<913, 774, 8120>>,
      <<913, 787, 7944>>, <<913, 788, 7945>>, <<913, 837, 8124>>, <<917, 768, 8136>>,
      <<917, 769, 904>>, <<917, 787, 7960>>, <<917, 788, 7961>>, <<919, 768, 8138>>,
      <<919, 769, 905>>, <<919, 787, 7976>>, <<919, 788, 7977>>, <<919, 837, 8140>>,
      <<921, 768, 8154>>, <<921, 769, 906>>, <<921, 772, 8153>>, <<921, 774, 8152>>,
      <<921, 776, 938>>, <<921, 787, 7992>>, <<921, 788, 7993>>, <<927, 768, 8184>>,
      <<927, 769, 908>>, <<927, 787, 8008>>, <<927, 788, 8009>>, <<929, 788, 8172>>,
      <<933, 768, 8170>>, <<933, 769, 910>>, <<933, 772, 8169>>, <<933, 774, 8168>>,
      <<933, 776, 939>>, <<933, 788, 8025>>, <<937, 768, 8186>>, <<937, 769, 911>>,
      <<937, 787, 8040>>, <<937, 788, 8041>>, <<937, 837, 8188>>, <<940, 837, 8116>>,
      <<942, 837, 8132>>, <<945, 768, 8048>>, <<945, 769, 940>>, <<945, 772, 8113>>,
      <<945, 774, 8112>>, <<945, 787, 7936>>, <<945, 788, 7937>>, <<945, 834, 8118>>,
      <<945, 837, 8115>>, <<949, 768, 8050>>, <<949, 769, 941>>, <<949, 787, 7952>>,
      <<949, 788, 7953>>, <<951, 768, 8052>>, <<951, 769, 942>>, <<951, 787, 7968>>,
      <<951, 788, 7969>>, <<951, 834, 8134>>, <<951, 837, 8131>>, <<953, 768, 8054>>,
      <<953, 769, 943>>, <<953, 772, 8145>>, <<953, 774, 8144>>, <<953, 776, 970>>,
      <<953, 787, 7984>>, <<953, 788, 7985>>, <<953, 834, 8150>>, <<959, 768, 8056>>,
      <<959, 769, 972>>, <<959, 787, 8000>>, <<959, 788, 8001>>, <<961, 787, 8164>>,
      <<961, 788, 8165>>, <<965, 768, 8058>>, <<965, 769, 973>>, <<965, 772, 8161>>,
      <<965, 774, 8160>>, <<965, 776, 971>>, <<965, 787, 8016>>, <<965, 788, 8017>>,
      <<965, 834, 8166>>, <<969, 768, 8060>>, <<969, 769, 974>>, <<969, 787, 8032>>,
      <<969, 788, 8033>>, <<969, 834, 8182>>, <<969, 837, 8179>>, <<970, 768, 8146>>,
      <<970, 769, 912>>, <<970, 834, 8151>>, <<971, 768, 8162>>, <<971, 769, 944>>,
      <<971, 834, 8167>>, <<974, 837, 8180>>, <<978, 769, 979>>, <<978, 776, 980>>,
      <<1030, 776, 1031>>, <<1040, 774, 1232>>, <<1040, 776, 1234>>, <<1043, 769, 1027>>,
      <<1045, 768, 1024>>, <<1045, 774, 1238>>, <<1045, 776, 1025>>, <<1046, 774, 1217>>,
      <<1046, 776, 1244>>, <<1047, 776, 1246>>, <<1048, 768, 1037>>, <<1048, 772, 1250>>,
      <<1048, 774, 1049>>, <<1048, 776, 1252>>, <<1050, 769, 1036>>, <<1054, 776, 1254>>,
      <<1059, 772, 1262>>, <<1059, 774, 1038>>, <<1059, 776, 1264>>, <<1059, 779, 1266>>,
      <<1063, 776, 1268>>, <<1067, 776, 1272>>, <<1069, 776, 1260>>, <<1072, 774, 1233>>,
      <<1072, 776, 1235>>, <<1075, 769, 1107>>, <<1077, 768, 1104>>, <<1077, 774, 1239>>,
      <<1077, 776, 1105>>, <<1078, 774, 1218>>, <<1078, 776, 1245>>, <<1079, 776, 1247>>,
      <<1080, 768, 1117>>, <<1080, 772, 1251>>, <<1080, 774, 1081>>, <<1080, 776, 1253>>,
      <<1082, 769, 1116>>, <<1086, 776, 1255>>, <<1091, 772, 1263>>, <<1091, 774, 1118>>,
      <<1091, 776, 1265>>, <<1091, 779, 1267>>, <<1095, 776, 1269>>, <<1099, 776, 1273>>,
      <<1101, 776, 1261>>, <<1110, 776, 1111>>, <<1140, 783, 1142>>, <<1141, 783, 1143>>,
      <<1240, 776, 1242>>, <<1241, 776, 1243>>, <<1256, 776, 1258>>, <<1257, 776, 1259>>,
      <<1575, 1619, 1570>>, <<1575, 1620, 1571>>, <<1575, 1621, 1573>>, <<1608, 1620, 1572>>,
      <<1610, 1620, 1574>>, <<1729, 1620, 1730>>, <<1746, 1620, 1747>>, <<1749, 1620, 1728>>,
      <<2344, 2364, 2345>>, <<2352, 2364, 2353>>, <<2355, 2364, 2356>>, <<2503, 2494, 2507>>,
      <<2503, 2519, 2508>>, <<2887, 2878, 2891>>, <<2887, 2902, 2888>>, <<2887, 2903, 2892>>,
      <<2962, 3031, 2964>>, <<3014, 3006, 3018>>, <<3014, 3031, 3020>>, <<3015, 3006, 3019>>,
      <<3142, 3158, 3144>>, <<3263, 3285, 3264>>, <<3270, 3266, 3274>>, <<3270, 3285, 3271>>,
      <<3270, 3286, 3272>>, <<3274, 3285, 3275>>, <<3398, 3390, 3402>>, <<3398, 3415, 3404>>,
      <<3399, 3390, 3403>>, <<3545, 3530, 3546>>, <<3545, 3535, 3548>>, <<3545, 3551, 3550>>,
      <<3548, 3530, 3549>>, <<4133, 4142, 4134>>, <<6917, 6965, 6918>>, <<6919, 6965, 6920>>,
      <<6921, 6965, 6922>>, <<6923, 6965, 6924>>, <<6925, 6965, 6926>>, <<6929, 6965, 6930>>,
      <<6970, 6965, 6971>>, <<6972, 6965, 6973>>, <<6974, 6965, 6976>>, <<6975, 6965, 6977>>,
      <<6978, 6965, 6979>>, <<7734, 772, 7736>>, <<7735, 772, 7737>>, <<7770, 772, 7772>>,
      <<7771, 772, 7773>>, <<7778, 775, 7784>>, <<7779, 775, 7785>>, <<7840, 770, 7852>>,
      <<7840, 774, 7862>>, <<7841, 770, 7853>>, <<7841, 774, 7863>>, <<7864, 770, 7878>>,
      <<7865, 770, 7879>>, <<7884, 770, 7896>>, <<7885, 770, 7897>>, <<7936, 768, 7938>>,
      <<7936, 769, 7940>>, <<7936, 834, 7942>>, <<7936, 837, 8064>>, <<7937, 768, 7939>>,
      <<7937, 769, 7941>>, <<7937, 834, 7943>>, <<7937, 837, 8065>>, <<7938, 837, 8066>>,
      <<7939, 837, 8067>>, <<7940, 837, 8068>>, <<7941, 837, 8069>>, <<7942, 837, 8070>>,
      <<7943, 837, 8071>>, <<7944, 768, 7946>>, <<7944, 769, 7948>>, <<7944, 834, 7950>>,
      <<7944, 837, 8072>>, <<7945, 768, 7947>>, <<7945, 769, 7949>>, <<7945, 834, 7951>>,
      <<7945, 837, 8073>>, <<7946, 837, 8074>>, <<7947, 837, 8075>>, <<7948, 837, 8076>>,
      <<7949, 837, 8077>>, <<7950, 837, 8078>>, <<7951, 837, 8079>>, <<7952, 768, 7954>>,
      <<7952, 769, 7956>>, <<7953, 768, 7955>>, <<7953, 769, 7957>>, <<7960, 768, 7962>>,
      <<7960, 769, 7964>>, <<7961, 768, 7963>>, <<7961, 769, 7965>>, <<7968, 768, 7970>>,
      <<7968, 769, 7972>>, <<7968, 834, 7974>>, <<7968, 837, 8080>>, <<7969, 768, 7971>>,
      <<7969, 769, 7973>>, <<7969, 834, 7975>>, <<7969, 837, 8081>>, <<7970, 837, 8082>>,
      <<7971, 837, 8083>>, <<7972, 837, 8084>>, <<7973, 837, 8085>>, <<7974, 837, 8086>>,
      <<7975, 837, 8087>>, <<7976, 768, 7978>>, <<7976, 769, 7980>>, <<7976, 834, 7982>>,
      <<7976, 837, 8088>>, <<7977, 768, 7979>>, <<7977, 769, 7981>>, <<7977, 834, 7983>>,
      <<7977, 837, 8089>>, <<7978, 837, 8090>>, <<7979, 837, 8091>>, <<7980, 837, 8092>>,
      <<7981, 837, 8093>>, <<7982, 837, 8094>>, <<7983, 837, 8095>>, <<7984, 768, 7986>>,
      <<7984, 769, 7988>>, <<7984, 834, 7990>>, <<7985, 768, 7987>>, <<7985, 769, 7989>>,
      <<7985, 834, 7991>>, <<7992, 768, 7994>>, <<7992, 769, 7996>>, <<7992, 834, 7998>>,
      <<7993, 768, 7995>>, <<7993, 769, 7997>>, <<7993, 834, 7999>>, <<8000, 768, 8002>>,
      <<8000, 769, 8004>>, <<8001, 768, 8003>>, <<8001, 769, 8005>>, <<8008, 768, 8010>>,
      <<8008, 769, 8012>>, <<8009, 768, 8011>>, <<8009, 769, 8013>>, <<8016, 768, 8018>>,
      <<8016, 769, 8020>>, <<8016, 834, 8022>>, <<8017, 768, 8019>>, <<8017, 769, 8021>>,
      <<8017, 834, 8023>>, <<8025, 768, 8027>>, <<8025, 769, 8029>>, <<8025, 834, 8031>>,
      <<8032, 768, 8034>>, <<8032, 769, 8036>>, <<8032, 834, 8038>>, <<8032, 837, 8096>>,
      <<8033, 768, 8035>>, <<8033, 769, 8037>>, <<8033, 834, 8039>>, <<8033, 837, 8097>>,
      <<8034, 837, 8098>>, <<8035, 837, 8099>>, <<8036, 837, 8100>>, <<8037, 837, 8101>>,
      <<8038, 837, 8102>>, <<8039, 837, 8103>>, <<8040, 768, 8042>>, <<8040, 769, 8044>>,
      <<8040, 834, 8046>>, <<8040, 837, 8104>>, <<8041, 768, 8043>>, <<8041, 769, 8045>>,
      <<8041, 834, 8047>>, <<8041, 837, 8105>>, <<8042, 837, 8106>>, <<8043, 837, 8107>>,
      <<8044, 837, 8108>>, <<8045, 837, 8109>>, <<8046, 837, 8110>>, <<8047, 837, 8111>>,
      <<8048, 837, 8114>>, <<8052, 837, 8130>>, <<8060, 837, 8178>>, <<8118, 837, 8119>>,
      <<8127, 768, 8141>>, <<8127, 769, 8142>>, <<8127, 834, 8143>>, <<8134, 837, 8135>>,
      <<8182, 837, 8183>>, <<8190, 768, 8157>>, <<8190, 769, 8158>>, <<8190, 834, 8159>>,
      <<8592, 824, 8602>>, <<8594, 824, 8603>>, <<8596, 824, 8622>>, <<8656, 824, 8653>>,
      <<8658, 824, 8655>>, <<8660, 824, 8654>>, <<8707, 824, 8708>>, <<8712, 824, 8713>>,
      <<8715, 824, 8716>>, <<8739, 824, 8740>>, <<8741, 824, 8742>>, <<8764, 824, 8769>>,
      <<8771, 824, 8772>>, <<8773, 824, 8775>>, <<8776, 824, 8777>>, <<8781, 824, 8813>>,
      <<8801, 824, 8802>>, <<8804, 824, 8816>>, <<8805, 824, 8817>>, <<8818, 824, 8820>>,
      <<8819, 824, 8821>>, <<8822, 824, 8824>>, <<8823, 824, 8825>>, <<8826, 824, 8832>>,
      <<8827, 824, 8833>>, <<8828, 824, 8928>>, <<8829, 824, 8929>>, <<8834, 824, 8836>>,
      <<8835, 824, 8837>>, <<8838, 824, 8840>>, <<8839, 824, 8841>>, <<8849, 824, 8930>>,
      <<8850, 824, 8931>>, <<8866, 824, 8876>>, <<8872, 824, 8877>>, <<8873, 824, 8878>>,
      <<8875, 824, 8879>>, <<8882, 824, 8938>>, <<8883, 824, 8939>>, <<8884, 824, 8940>>,
      <<8885, 824, 8941>>, <<12358, 12441, 12436>>, <<12363, 12441, 12364>>, <<12365, 12441, 12366>>,
      <<12367, 12441, 12368>>, <<12369, 12441, 12370>>, <<12371, 12441, 12372>>,
      <<12373, 12441, 12374>>, <<12375, 12441, 12376>>, <<12377, 12441, 12378>>,
      <<12379, 12441, 12380>>, <<12381, 12441, 12382>>, <<12383, 12441, 12384>>,
      <<12385, 12441, 12386>>, <<12388, 12441, 12389>>, <<12390, 12441, 12391>>,
      <<12392, 12441, 12393>>, <<12399, 12441, 12400>>, <<12399, 12442, 12401>>,
      <<12402, 12441, 12403>>, <<12402, 12442, 12404>>, <<12405, 12441, 12406>>,
      <<12405, 12442, 12407>>, <<12408, 12441, 12409>>, <<12408, 12442, 12410>>,
      <<12411, 12441, 12412>>, <<12411, 12442, 12413>>, <<12445, 12441, 12446>>,
      <<12454, 12441, 12532>>, <<12459, 12441, 12460>>, <<12461, 12441, 12462>>,
      <<12463, 12441, 12464>>, <<12465, 12441, 12466>>, <<12467, 12441, 12468>>,
      <<12469, 12441, 12470>>, <<12471, 12441, 12472>>, <<12473, 12441, 12474>>,
      <<12475, 12441, 12476>>, <<12477, 12441, 12478>>, <<12479, 12441, 12480>>,
      <<12481, 12441, 12482>>, <<12484, 12441, 12485>>, <<12486, 12441, 12487>>,
      <<12488, 12441, 12489>>, <<12495, 12441, 12496>>, <<12495, 12442, 12497>>,
      <<12498, 12441, 12499>>, <<12498, 12442, 12500>>, <<12501, 12441, 12502>>,
      <<12501, 12442, 12503>>, <<12504, 12441, 12505>>, <<12504, 12442, 12506>>,
      <<12507, 12441, 12508>>, <<12507, 12442, 12509>>, <<12527, 12441, 12535>>,
      <<12528, 12441, 12536>>, <<12529, 12441, 12537>>, <<12530, 12441, 12538>>,
      <<12541, 12441, 12542>>, <<69785, 69818, 69786>>, <<69787, 69818, 69788>>,
      <<69797, 69818, 69803>>, <<69937, 69927, 69934>>, <<69938, 69927, 69935>>,
      <<70471, 70462, 70475>>, <<70471, 70487, 70476>>, <<70841, 70832, 70844>>,
      <<70841, 70842, 70843>>, <<70841, 70845, 70846>>, <<71096, 71087, 71098>>,
      <<71097, 71087, 71099>>, <<71989, 71984, 71992>>>>

\* stringprep: the ranges of the characters of the tables C.1.2, C.2.2 and C.3
\* to C.9, which nameprep prohibits.
ProhibitedTables ==
    <<<<128, 160>>, <<832, 833>>, <<1757, 1757>>, <<1807, 1807>>, <<5760, 5760>>, <<6158, 6158>>,
      <<8192, 8207>>, <<8232, 8239>>, <<8287, 8291>>, <<8298, 8303>>, <<12272, 12283>>,
      <<12288, 12288>>, <<55296, 63743>>, <<64976, 65007>>, <<65279, 65279>>, <<65529, 65535>>,
      <<119155, 119162>>, <<131070, 131071>>, <<196606, 196607>>, <<262142, 262143>>,
      <<327678, 327679>>, <<393214, 393215>>, <<458750, 458751>>, <<524286, 524287>>,
      <<589822, 589823>>, <<655358, 655359>>, <<720894, 720895>>, <<786430, 786431>>,
      <<851966, 851967>>, <<917502, 917503>>, <<917505, 917505>>, <<917536, 917631>>,
      <<983038, 1114111>>>>

\* stringprep.in_table_d1: the ranges of the characters of bidirectional
\* category R or AL.
TableD1 ==
    <<<<1470, 1470>>, <<1472, 1472>>, <<1475, 1475>>, <<1488, 1514>>, <<1520, 1524>>, <<1563, 1563>>,
      <<1567, 1567>>, <<1569, 1594>>, <<1600, 1610>>, <<1645, 1647>>, <<1649, 1749>>, <<1757, 1757>>,
      <<1765, 1766>>, <<1786, 1790>>, <<1792, 1805>>, <<1808, 1808>>, <<1810, 1836>>, <<1920, 1957>>,
      <<1969, 1969>>, <<8207, 8207>>, <<64285, 64285>>, <<64287, 64296>>, <<64298, 64310>>,
      <<64312, 64316>>, <<64318, 64318>>, <<64320, 64321>>, <<64323, 64324>>, <<64326, 64433>>,
      <<64467, 64829>>, <<64848, 64911>>, <<64914, 64967>>, <<65008, 65020>>, <<65136, 65140>>,
      <<65142, 65276>>>>

\* stringprep.in_table_d2: the ranges of the characters of bidirectional
\* category L.
TableD2 ==
    <<<<65, 90>>, <<97, 122>>, <<170, 170>>, <<181, 181>>, <<186, 186>>, <<192, 214>>, <<216, 246>>,
      <<248, 544>>, <<546, 563>>, <<592, 685>>, <<688, 696>>, <<699, 705>>, <<720, 721>>,
      <<736, 740>>, <<750, 750>>, <<890, 890>>, <<902, 902>>, <<904, 906>>, <<908, 908>>,
      <<910, 929>>, <<931, 974>>, <<976, 1013>>, <<1024, 1154>>, <<1162, 1230>>, <<1232, 1269>>,
      <<1272, 1273>>, <<1280, 1295>>, <<1329, 1366>>, <<1369, 1375>>, <<1377, 1415>>, <<1417, 1417>>,
      <<2307, 2307>>, <<2309, 2361>>, <<2365, 2368>>, <<2377, 2380>>, <<2384, 2384>>, <<2392, 2401>>,
      <<2404, 2416>>, <<2434, 2435>>, <<2437, 2444>>, <<2447, 2448>>, <<2451, 2472>>, <<2474, 2480>>,
      <<2482, 2482>>, <<2486, 2489>>, <<2494, 2496>>, <<2503, 2504>>, <<2507, 2508>>, <<2519, 2519>>,
      <<2524, 2525>>, <<2527, 2529>>, <<2534, 2545>>, <<2548, 2554>>, <<2565, 2570>>, <<2575, 2576>>,
      <<2579, 2600>>, <<2602, 2608>>, <<2610, 2611>>, <<2613, 2614>>, <<2616, 2617>>, <<2622, 2624>>,
      <<2649, 2652>>, <<2654, 2654>>, <<2662, 2671>>, <<2674, 2676>>, <<2691, 2691>>, <<2693, 2699>>,
      <<2701, 2701>>, <<2703, 2705>>, <<2707, 2728>>, <<2730, 2736>>, <<2738, 2739>>, <<2741, 2745>>,
      <<2749, 2752>>, <<2761, 2761>>, <<2763, 2764>>, <<2768, 2768>>, <<2784, 2784>>, <<2790, 2799>>,
      <<2818, 2819>>, <<2821, 2828>>, <<2831, 2832>>, <<2835, 2856>>, <<2858, 2864>>, <<2866, 2867>>,
      <<2870, 2873>>, <<2877, 2878>>, <<2880, 2880>>, <<2887, 2888>>, <<2891, 2892>>, <<2903, 2903>>,
      <<2908, 2909>>, <<2911, 2913>>, <<2918, 2928>>, <<2947, 2947>>, <<2949, 2954>>, <<2958, 2960>>,
      <<2962, 2965>>, <<2969, 2970>>, <<2972, 2972>>, <<2974, 2975>>, <<2979, 2980>>, <<2984, 2986>>,
      <<2990, 2997>>, <<2999, 3001>>, <<3006, 3007>>, <<3009, 3010>>, <<3014, 3016>>, <<3018, 3020>>,
      <<3031, 3031>>, <<3047, 3058>>, <<3073, 3075>>, <<3077, 3084>>, <<3086, 3088>>, <<3090, 3112>>,
      <<3114, 3123>>, <<3125, 3129>>, <<3137, 3140>>, <<3168, 3169>>, <<3174, 3183>>, <<3202, 3203>>,
      <<3205, 3212>>, <<3214, 3216>>, <<3218, 3240>>, <<3242, 3251>>, <<3253, 3257>>, <<3262, 3262>>,
      <<3264, 3268>>, <<3271, 3272>>, <<3274, 3275>>, <<3285, 3286>>, <<3294, 3294>>, <<3296, 3297>>,
      <<3302, 3311>>, <<3330, 3331>>, <<3333, 3340>>, <<3342, 3344>>, <<3346, 3368>>, <<3370, 3385>>,
      <<3390, 3392>>, <<3398, 3400>>, <<3402, 3404>>, <<3415, 3415>>, <<3424, 3425>>, <<3430, 3439>>,
      <<3458, 3459>>, <<3461, 3478>>, <<3482, 3505>>, <<3507, 3515>>, <<3517, 3517>>, <<3520, 3526>>,
      <<3535, 3537>>, <<3544, 3551>>, <<3570, 3572>>, <<3585, 3632>>, <<3634, 3635>>, <<3648, 3654>>,
      <<3663, 3675>>, <<3713, 3714>>, <<3716, 3716>>, <<3719, 3720>>, <<3722, 3722>>, <<3725, 3725>>,
      <<3732, 3735>>, <<3737, 3743>>, <<3745, 3747>>, <<3749, 3749>>, <<3751, 3751>>, <<3754, 3755>>,
      <<3757, 3760>>, <<3762, 3763>>, <<3773, 3773>>, <<3776, 3780>>, <<3782, 3782>>, <<3792, 3801>>,
      <<3804, 3805>>, <<3840, 3863>>, <<3866, 3892>>, <<3894, 3894>>, <<3896, 3896>>, <<3902, 3911>>,
      <<3913, 3946>>, <<3967, 3967>>, <<3973, 3973>>, <<3976, 3979>>, <<4030, 4037>>, <<4039, 4044>>,
      <<4047, 4047>>, <<4096, 4129>>, <<4131, 4135>>, <<4137, 4138>>, <<4140, 4140>>, <<4145, 4145>>,
      <<4152, 4152>>, <<4160, 4183>>, <<4256, 4293>>, <<4304, 4344>>, <<4347, 4347>>, <<4352, 4441>>,
      <<4447, 4514>>, <<4520, 4601>>, <<4608, 4614>>, <<4616, 4678>>, <<4680, 4680>>, <<4682, 4685>>,
      <<4688, 4694>>, <<4696, 4696>>, <<4698, 4701>>, <<4704, 4742>>, <<4744, 4744>>, <<4746, 4749>>,
      <<4752, 4782>>, <<4784, 4784>>, <<4786, 4789>>, <<4792, 4798>>, <<4800, 4800>>, <<4802, 4805>>,
      <<4808, 4814>>, <<4816, 4822>>, <<4824, 4846>>, <<4848, 4878>>, <<4880, 4880>>, <<4882, 4885>>,
      <<4888, 4894>>, <<4896, 4934>>, <<4936, 4954>>, <<4961, 4988>>, <<5024, 5108>>, <<5121, 5750>>,
      <<5761, 5786>>, <<5792, 5872>>, <<5888, 5900>>, <<5902, 5905>>, <<5920, 5937>>, <<5941, 5942>>,
      <<5952, 5969>>, <<5984, 5996>>, <<5998, 6000>>, <<6016, 6070>>, <<6078, 6085>>, <<6087, 6088>>,
      <<6100, 6106>>, <<6108, 6108>>, <<6112, 6121>>, <<6160, 6169>>, <<6176, 6263>>, <<6272, 6312>>,
      <<7680, 7835>>, <<7840, 7929>>, <<7936, 7957>>, <<7960, 7965>>, <<7968, 8005>>, <<8008, 8013>>,
      <<8016, 8023>>, <<8025, 8025>>, <<8027, 8027>>, <<8029, 8029>>, <<8031, 8061>>, <<8064, 8116>>,
      <<8118, 8124>>, <<8126, 8126>>, <<8130, 8132>>, <<8134, 8140>>, <<8144, 8147>>, <<8150, 8155>>,
      <<8160, 8172>>, <<8178, 8180>>, <<8182, 8188>>, <<8206, 8206>>, <<8305, 8305>>, <<8319, 8319>>,
      <<8450, 8450>>, <<8455, 8455>>, <<8458, 8467>>, <<8469, 8469>>, <<8473, 8477>>, <<8484, 8484>>,
      <<8486, 8486>>, <<8488, 8488>>, <<8490, 8493>>, <<8495, 8497>>, <<8499, 8505>>, <<8509, 8511>>,
      <<8517, 8521>>, <<8544, 8579>>, <<9014, 9082>>, <<9109, 9109>>, <<9372, 9449>>,
      <<12293, 12295>>, <<12321, 12329>>, <<12337, 12341>>, <<12344, 12348>>, <<12353, 12438>>,
      <<12445, 12447>>, <<12449, 12538>>, <<12540, 12543>>, <<12549, 12588>>, <<12593, 12686>>,
      <<12688, 12727>>, <<12784, 12828>>, <<12832, 12867>>, <<12896, 12923>>, <<12927, 12976>>,
      <<12992, 13003>>, <<13008, 13054>>, <<13056, 13174>>, <<13179, 13277>>, <<13280, 13310>>,
      <<13312, 19893>>, <<19968, 40869>>, <<40960, 42124>>, <<44032, 55203>>, <<55296, 64045>>,
      <<64048, 64106>>, <<64256, 64262>>, <<64275, 64279>>, <<65313, 65338>>, <<65345, 65370>>,
      <<65382, 65470>>, <<65474, 65479>>, <<65482, 65487>>, <<65490, 65495>>, <<65498, 65500>>,
      <<66304, 66334>>, <<66336, 66339>>, <<66352, 66378>>, <<66560, 66597>>, <<66600, 66637>>,
      <<118784, 119029>>, <<119040, 119078>>, <<119082, 119142>>, <<119146, 119154>>,
      <<119171, 119172>>, <<119180, 119209>>, <<119214, 119261>>, <<119808, 119892>>,
      <<119894, 119964>>, <<119966, 119967>>, <<119970, 119970>>, <<119973, 119974>>,
      <<119977, 119980>>, <<119982, 119993>>, <<119995, 119995>>, <<119997, 120000>>,
      <<120002, 120003>>, <<120005, 120069>>, <<120071, 120074>>, <<120077, 120084>>,
      <<120086, 120092>>, <<120094, 120121>>, <<120123, 120126>>, <<120128, 120132>>,
      <<120134, 120134>>, <<120138, 120144>>, <<120146, 120483>>, <<120488, 120777>>,
      <<131072, 173782>>, <<194560, 195101>>, <<983040, 1048573>>, <<1048576, 1114109>>>>

RECURSIVE RowOf(_, _, _, _), RowNear(_, _, _, _, _)
\* The number of the row among the rows lo to hi of table, which are in the
\* order of their first entries, whose first entry is c; 0 when there is none.
RowOf(table, c, lo, hi) ==
    IF lo > hi THEN 0 ELSE RowNear(table, c, lo, hi, (lo + hi) \div 2)

RowNear(table, c, lo, hi, mid) ==
    IF table[mid][1] = c THEN mid
    ELSE IF table[mid][1] < c THEN RowOf(table, c, mid + 1, hi)
    ELSE RowOf(table, c, lo, mid - 1)

RECURSIVE RangeOf(_, _, _, _), RangeNear(_, _, _, _, _)
\* The number of the row among the rows lo to hi of table, rows <<first,
\* last, ...>> in the order of their code points, whose range holds c; 0
\* when there is none.
RangeOf(table, c, lo, hi) ==
    IF lo > hi THEN 0 ELSE RangeNear(table, c, lo, hi, (lo + hi) \div 2)

RangeNear(table, c, lo, hi, mid) ==
    IF c < table[mid][1] THEN RangeOf(table, c, lo, mid - 1)
    ELSE IF c > table[mid][2] THEN RangeOf(table, c, mid + 1, hi)
    ELSE mid

RECURSIVE PairOf(_, _, _, _, _), PairNear(_, _, _, _, _, _)
\* The number of the row <<first, second, ...>> of table among the rows lo to
\* hi; 0 when there is none.
PairOf(table, first, second, lo, hi) ==
    IF lo > hi THEN 0 ELSE PairNear(table, first, second, lo, hi, (lo + hi) \div 2)

PairNear(table, first, second, lo, hi, mid) ==
    IF table[mid][1] = first /\ table[mid][2] = second THEN mid
    ELSE IF table[mid][1] < first \/ (table[mid][1] = first /\ table[mid][2] < second)
    THEN PairOf(table, first, second, mid + 1, hi)
    ELSE PairOf(table, first, second, lo, mid - 1)

\* What the row of a table gives for c: entry number n of it, or none where
\* no row is for c.
EntryOf(table, row, n, none) == IF row = 0 THEN none ELSE table[row][n]

\* Whether a range of table holds c.
InTable(table, c) == RangeOf(table, c, 1, Len(table)) /= 0

\* The text c is mapped to by a table of the rows <<code point, text>>, c
\* itself where it has no row.
MappedBy(table, c) == EntryOf(table, RowOf(table, c, 1, Len(table)), 2, <<c>>)

ClassBy(table, c) == EntryOf(table, RangeOf(table, c, 1, Len(table)), 3, 0)

ComposedBy(table, first, second) ==
    EntryOf(table, PairOf(table, first, second, 1, Len(table)), 3, 0)

in_table_b1(c) == InTable(TableB1, c)

map_table_b2(c) == MappedBy(TableB2, c)

in_table_d1(c) == InTable(TableD1, c)

in_table_d2(c) == InTable(TableD2, c)

\* in_table_c12(c) or in_table_c22(c) or in_table_c3(c) or ... in_table_c9(c).
Prohibited(c) == InTable(ProhibitedTables, c)

\* unicodedata.combining.
Combining(c) == ClassBy(CombiningClasses, c)

\* The character first and second are composed to, 0 when they are not
\* composed.
Composition(first, second) == ComposedBy(Compositions, first, second)

\* The Hangul syllables are U+AC00 and the 11171 characters after it: 19
\* leading consonants from U+1100, 21 vowels from U+1161, and no trailing
\* consonant or one of the 27 after U+11A7.  The decomposition of the
\* syllable number s (from 0).
HangulDecomposition(s) ==
    <<4352 + (s \div 588), 4449 + ((s % 588) \div 28)>>
        \o (IF s % 28 = 0 THEN <<>> ELSE <<4519 + (s % 28)>>)

\* The full compatibility decomposition of c.
Decomposition(c) ==
    IF c >= 44032 /\ c < 55204 THEN HangulDecomposition(c - 44032)
    ELSE MappedBy(Decompositions, c)

RECURSIVE Joined(_, _, _)
\* "".join of the texts lo to hi of parts.
Joined(parts, lo, hi) ==
    IF lo > hi THEN <<>>
    ELSE IF lo = hi THEN parts[lo]
    ELSE Joined(parts, lo, (lo + hi) \div 2) \o Joined(parts, (lo + hi) \div 2 + 1, hi)

\* One round of the canonical ordering of the decomposed text s, its
\* character at.i being of the combining class k: one of class 0 stays where
\* it is, any other goes before the characters of a greater class that come
\* right before it.  at.out is the text so far, and at.run where in it the
\* characters begin that no character of class 0 follows.
OrderWith(s, at, k) ==
    IF k = 0
    THEN [i |-> at.i + 1, out |-> Append(at.out, s[at.i]), run |-> Len(at.out) + 2]
    ELSE [i   |-> at.i + 1,
          out |-> InsertedAt(at.out,
                             at.run - 1 + Cardinality({j \in at.run..Len(at.out) :
                                                         Combining(at.out[j]) <= k}),
                             s[at.i]),
          run |-> at.run]

RECURSIVE OrderRounds(_, _, _)
\* n rounds of the ordering from the state at, or those up to the end of s.
OrderRounds(s, at, n) ==
    IF at.i > Len(s) THEN at
    ELSE IF n <= 1 THEN OrderWith(s, at, Combining(s[at.i]))
    ELSE OrderRounds(s, OrderRounds(s, at, n \div 2), n - (n \div 2))

\* The decomposed text s in canonical order.
CanonicalOrder(s) == OrderRounds(s, [i |-> 1, out |-> <<>>, run |-> 1], Len(s)).out

\* One round of the search, from the state at, for the characters of s that
\* are composed with the character at.code: the character at at.i1 has the
\* class comb1 and is composed with at.code to code1.  A character behind
\* one of its own class or a greater one (at.comb) is blocked, and the search
\* ends at a character of class 0 that is not composed.
CombineWith(at, comb1, code1) ==
    IF at.comb /= 0 /\ comb1 = 0 THEN [at EXCEPT !.done = TRUE]
    ELSE IF at.comb /= 0 /\ at.comb >= comb1 THEN [at EXCEPT !.i1 = at.i1 + 1]
    ELSE IF code1 /= 0
    THEN [at EXCEPT !.i1 = at.i1 + 1, !.code = code1, !.skipped = at.skipped \cup {at.i1}]
    ELSE IF comb1 = 0 THEN [at EXCEPT !.done = TRUE]
    ELSE [at EXCEPT !.i1 = at.i1 + 1, !.comb = comb1]

CombineOnce(s, at) ==
    IF at.i1 > Len(s) THEN [at EXCEPT !.done = TRUE]
    ELSE CombineWith(at, Combining(s[at.i1]), Composition(at.code, s[at.i1]))

RECURSIVE CombineRounds(_, _, _)
\* n rounds of the search from the state at, or those up to its end.
CombineRounds(s, at, n) ==
    IF at.done THEN at
    ELSE IF n <= 1 THEN CombineOnce(s, at)
    ELSE CombineRounds(s, CombineRounds(s, at, n \div 2), n - (n \div 2))

\* The characters of s from i1 on that are composed with the character code:
\* code is what they are composed to, skipped where they are.
Combine(s, i1, code, skipped) ==
    CombineRounds(s, [done |-> FALSE, i1 |-> i1, code |-> code, comb |-> 0,
                      skipped |-> skipped],
                  Len(s) + 1)

\* The syllable of the leading consonant l and the vowel v.
HangulLV(l, v) == 44032 + ((l - 4352) * 21 + (v - 4449)) * 28

\* A leading consonant at i with a vowel after it.
HangulAt(s, i) ==
    /\ s[i] >= 4352 /\ s[i] < 4371
    /\ i + 1 <= Len(s)
    /\ s[i + 1] >= 4449 /\ s[i + 1] < 4470

\* The state of the composition once the character at i is written as code.
ComposedAt(i, out, c) == [i |-> i + 1, out |-> Append(out, c.code), skipped |-> c.skipped]

\* One round of the composition of the ordered text s at i: a character that
\* was composed with an earlier one is skipped, Hangul is composed by
\* arithmetic, any other character with the characters that follow it.
ComposeOnce(s, i, out, skipped) ==
    IF i \in skipped THEN [i |-> i + 1, out |-> out, skipped |-> skipped \ {i}]
    ELSE IF HangulAt(s, i)
    THEN IF i + 2 <= Len(s) /\ s[i + 2] > 4519 /\ s[i + 2] < 4547
         THEN [i |-> i + 3, out |-> Append(out, HangulLV(s[i], s[i + 1]) + s[i + 2] - 4519),
               skipped |-> skipped]
         ELSE [i |-> i + 2, out |-> Append(out, HangulLV(s[i], s[i + 1])), skipped |-> skipped]
    ELSE ComposedAt(i, out, Combine(s, i + 1, s[i], skipped))

RECURSIVE ComposeRounds(_, _, _)
\* n rounds of the composition from the state at, or those up to the end
\* of s.
ComposeRounds(s, at, n) ==
    IF at.i > Len(s) THEN at
    ELSE IF n <= 1 THEN ComposeOnce(s, at.i, at.out, at.skipped)
    ELSE ComposeRounds(s, ComposeRounds(s, at, n \div 2), n - (n \div 2))

\* The canonical composition of the ordered text s.
Compose(s) == ComposeRounds(s, [i |-> 1, out |-> <<>>, skipped |-> {}], Len(s)).out

\* unicodedata.ucd_3_2_0.normalize("NFKC", s): the decompositions of the
\* characters, in canonical order, composed.
NFKC(s) ==
    Compose(CanonicalOrder(Joined([i \in 1..Len(s) |-> Decomposition(s[i])], 1, Len(s))))

\* The steps Prohibit and Check bidi of nameprep for the normalized label: a
\* prohibited character raises UnicodeError, and so does a label with a
\* character of table D.1 that has one of table D.2 or does not begin and
\* end with one of table D.1.
NameprepChecked(label, RandAL) ==
    IF \E k \in 1..Len(label) : Prohibited(label[k]) THEN UnicodeError
    ELSE IF /\ \E k \in 1..Len(label) : RandAL[k]
            /\ \/ \E k \in 1..Len(label) : in_table_d2(label[k])
               \/ ~RandAL[1]
               \/ ~RandAL[Len(label)]
    THEN UnicodeError
    ELSE [exc |-> "none", text |-> label]

NameprepNormalized(label) ==
    NameprepChecked(label, [k \in 1..Len(label) |-> in_table_d1(label[k])])

\* encodings.idna.nameprep: the steps Map and Normalize, then the checks.
nameprep(label) ==
    NameprepNormalized(
        NFKC(Joined([i \in 1..Len(label) |->
                        IF in_table_b1(label[i]) THEN <<>> ELSE map_table_b2(label[i])],
                    1, Len(label))))

(***************************************************************************)
(* encodings.punycode, the encoder.                                        *)
(***************************************************************************)
\* segregate: the characters below 128 as they come, and the others sorted,
\* each once.
IsBasic(c) == c < 128

Sorted(chars) ==
    Joined([k \in 1..Cardinality(chars) |->
               <<CHOOSE c \in chars : Cardinality({d \in chars : d < c}) = k - 1>>],
           1, Cardinality(chars))

segregate(str) ==
    [base     |-> SelectSeq(str, IsBasic),
     extended |-> Sorted({str[k] : k \in {i \in 1..Len(str) : str[i] >= 128}})]

selective_len(str, max) == Cardinality({i \in 1..Len(str) : str[i] < max})

\* selective_find where char is next found at position p (from 1).
FoundAt(str, char, index, pos, p) ==
    [index |-> index + 1 + Cardinality({q \in (pos + 1)..(p - 1) : str[q] < char}), pos |-> p]

\* selective_find: the next char of str after its first pos characters:
\* [index |-> index and the characters up to char that were passed, pos |->
\* where it is], index -1 when there is none.
selective_find(str, char, index, pos) ==
    IF \A p \in (pos + 1)..Len(str) : str[p] /= char THEN [index |-> -1, pos |-> 0]
    ELSE FoundAt(str, char, index, pos,
                 CHOOSE p \in (pos + 1)..Len(str) :
                     str[p] = char /\ \A q \in (pos + 1)..(p - 1) : str[q] /= char)

\* The number insertion_unsort begins the character number n of extended
\* with, oldchar being the character before it.
FirstDelta(str, extended, n, oldchar) ==
    IF n > Len(extended) THEN 0
    ELSE (selective_len(str, extended[n]) + 1) * (extended[n] - oldchar)

\* One round of the inner loop of insertion_unsort, found being what
\* selective_find gives for the character number at.n: where there is no
\* further one the next character begins, else the place gives a number.
UnsortOnce(str, extended, at, found) ==
    IF found.index = -1
    THEN [n |-> at.n + 1, index |-> -1, pos |-> 0,
          delta |-> FirstDelta(str, extended, at.n + 1, extended[at.n]),
          oldindex |-> at.oldindex, result |-> at.result]
    ELSE [n |-> at.n, index |-> found.index, pos |-> found.pos, delta |-> 0,
          oldindex |-> found.index,
          result |-> Append(at.result, at.delta + found.index - at.oldindex - 1)]

RECURSIVE UnsortRounds(_, _, _, _)
\* n rounds of the loops from the state at, or those up to their end.
UnsortRounds(str, extended, at, n) ==
    IF at.n > Len(extended) THEN at
    ELSE IF n <= 1
    THEN UnsortOnce(str, extended, at, selective_find(str, extended[at.n], at.index, at.pos))
    ELSE UnsortRounds(str, extended, UnsortRounds(str, extended, at, n \div 2),
                      n - (n \div 2))

\* insertion_unsort: a round for every character of str that is in extended,
\* and one more for every character of extended.
insertion_unsort(str, extended) ==
    UnsortRounds(str, extended,
                 [n |-> 1, index |-> -1, pos |-> 0, delta |-> FirstDelta(str, extended, 1, 128),
                  oldindex |-> -1, result |-> <<>>],
                 Len(str) + Len(extended)).result

\* digits[n].
PunycodeChar(n) == IF n < 26 THEN 97 + n ELSE 22 + n

RECURSIVE generate_generalized_integer(_, _, _), GeneralizedDigits(_, _, _, _)
\* generate_generalized_integer from the digit number j on.
generate_generalized_integer(N, bias, j) == GeneralizedDigits(N, bias, j, PunycodeT(j, bias))

GeneralizedDigits(N, bias, j, t) ==
    IF N < t THEN <<PunycodeChar(N)>>
    ELSE <<PunycodeChar(t + ((N - t) % (36 - t)))>>
             \o generate_generalized_integer((N - t) \div (36 - t), bias, j + 1)

\* generate_integers: every number of deltas as a generalized integer, the
\* bias of the first being 72 and that of any other what adapt makes of the
\* number before it.
generate_integers(baselen, deltas) ==
    Joined([k \in 1..Len(deltas) |->
               generate_generalized_integer(
                   deltas[k],
                   IF k = 1 THEN 72
                   ELSE adapt(Limbs(deltas[k - 1]), k = 2, baselen + k - 1),
                   0)],
           1, Len(deltas))

\* punycode_encode for the parts segregate gives.
PunycodeJoined(str, parts) ==
    (IF parts.base = <<>> THEN <<>> ELSE Append(parts.base, Minus))
        \o generate_integers(Len(parts.base), insertion_unsort(str, parts.extended))

punycode_encode(str) == PunycodeJoined(str, segregate(str))

(***************************************************************************)
(* encodings.idna.                                                         *)
(***************************************************************************)
ace_prefix == Text(<<"x", "n", "-", "-">>)

IsAscii(label) == \A k \in 1..Len(label) : label[k] < 128

\* Step 8 of ToASCII: a label of 1 to 63 characters, else UnicodeError.
Sized(label) ==
    IF Len(label) > 0 /\ Len(label) < 64 THEN [exc |-> "none", text |-> label]
    ELSE UnicodeError

\* Steps 4 to 8 of ToASCII for what nameprep made of the label.
AceOf(prepared) ==
    IF prepared.exc /= "none" THEN prepared
    ELSE IF IsAscii(prepared.text) THEN Sized(prepared.text)
    ELSE IF BeginsWith(prepared.text, ace_prefix) THEN UnicodeError
    ELSE Sized(ace_prefix \o punycode_encode(prepared.text))

\* ToASCII of a label: the label as ASCII.
ToASCII(label) == IF IsAscii(label) THEN Sized(label) ELSE AceOf(nameprep(label))

\* Step 7 of ToUnicode: the label in lower case is what ToASCII makes of the
\* result (label2), or UnicodeError is raised.
RoundTrip(label, result, label2) ==
    IF label2.exc /= "none" THEN label2
    ELSE IF AsciiLower(label) /= label2.text THEN UnicodeError
    ELSE result

\* Steps 6 to 8 of ToUnicode for the punycode text of the label.
Decoded(label, result) ==
    IF result.exc /= "none" THEN result
    ELSE RoundTrip(label, result, ToASCII(result.text))

\* ToUnicode of a label given as bytes.
ToUnicode(label) ==
    IF ~BeginsWith(label, ace_prefix) THEN AsciiDecode(label, "strict")
    ELSE Decoded(label, IF Len(label) = 4 THEN [exc |-> "none", text |-> <<>>]
                        ELSE punycode_decode(SubSeq(label, 5, Len(label)), "strict"))

\* input.split(b"."): the label number k of b, dots being where its dots are.
LabelOf(b, dots, k) ==
    SubSeq(b,
           IF k = 1 THEN 1
           ELSE 1 + CHOOSE j \in dots : Cardinality({m \in dots : m < j}) = k - 2,
           IF k > Cardinality(dots) THEN Len(b)
           ELSE (CHOOSE j \in dots : Cardinality({m \in dots : m < j}) = k - 1) - 1)

\* ".".join of the labels as ToUnicode gives them, u[k] for the label number
\* k: what the first label that raises raises, else the texts with dots
\* between them.  A dot at the end of b leaves an empty label behind it,
\* which the code takes off and writes as the dot.
IdnaJoin(u) ==
    IF \E k \in 1..Len(u) : u[k].exc /= "none"
    THEN u[CHOOSE k \in 1..Len(u) : u[k].exc /= "none" /\ \A m \in 1..(k - 1) : u[m].exc = "none"]
    ELSE [exc |-> "none",
          text |-> Joined([k \in 1..(2 * Len(u) - 1) |->
                              IF k % 2 = 1 THEN u[(k + 1) \div 2].text ELSE <<Dot>>],
                          1, 2 * Len(u) - 1)]

\* The labels of b, each through ToUnicode, joined by dots.
IdnaLabels(b, dots) ==
    IdnaJoin(Joined([k \in 1..(Cardinality(dots) + 1) |-> <<ToUnicode(LabelOf(b, dots, k))>>],
                    1, Cardinality(dots) + 1))

\* Codec.decode of encodings.idna: any error handler but strict is refused;
\* bytes without the ACE prefix that are ASCII are returned as they are.
IdnaDecode(b, errors) ==
    IF errors /= "strict" THEN UnicodeError
    ELSE IF ~Contains(b, ace_prefix) /\ AsciiDecode(b, "strict").exc = "none"
    THEN AsciiDecode(b, "strict")
    ELSE IdnaLabels(b, {j \in 1..Len(b) : b[j] = Dot})

(***************************************************************************)
(* bytes.decode.                                                           *)
(***************************************************************************)
Utf8Bom == <<239, 187, 191>>

\* The byte order the UTF-16 and UTF-32 codecs read b in (a byte order mark
\* decides, without one it is little-endian) and where the text starts.
Utf16Order(b) == IF BeginsWith(b, <<254, 255>>) THEN "utf_16_be" ELSE "utf_16_le"
Utf16Start(b) == IF BeginsWith(b, <<255, 254>>) \/ BeginsWith(b, <<254, 255>>) THEN 3 ELSE 1
Utf32Order(b) == IF BeginsWith(b, <<0, 0, 254, 255>>) THEN "utf_32_be" ELSE "utf_32_le"
Utf32Start(b) ==
    IF BeginsWith(b, <<255, 254, 0, 0>>) \/ BeginsWith(b, <<0, 0, 254, 255>>) THEN 5 ELSE 1

\* The decoding of non-empty bytes b by a codec.  A name that is no text
\* encoding raises LookupError; undecodable bytes raise UnicodeDecodeError
\* under errors = "strict" only; the undefined codec raises UnicodeError
\* whatever it is given.
DecodeWith(codec, b, errors) ==
    CASE codec \in NoTextCodecs \cup {"unknown"} -> [exc |-> "LookupError", text |-> <<>>]
      [] codec = "undefined" -> UnicodeError
      [] codec = "idna"      -> IdnaDecode(b, errors)
      [] codec = "punycode"  -> punycode_decode(b, errors)
      [] codec = "utf_8_sig" ->
             DecodeResult(DecodeFrom("utf_8", b, IF BeginsWith(b, Utf8Bom) THEN 4 ELSE 1,
                                     errors))
      [] codec = "utf_16"    -> DecodeResult(DecodeFrom(Utf16Order(b), b, Utf16Start(b), errors))
      [] codec = "utf_32"    -> DecodeResult(DecodeFrom(Utf32Order(b), b, Utf32Start(b), errors))
      [] OTHER               -> DecodeResult(DecodeFrom(codec, b, 1, errors))

\* What the conversion of the name to a C string raises before any codec is
\* looked up, also for empty bytes: UnicodeEncodeError for a name that holds a
\* surrogate, ValueError for one that holds U+0000.
NameError(encoding) ==
    IF \E k \in 1..Len(encoding) : encoding[k] >= 55296 /\ encoding[k] <= 57343
    THEN "UnicodeEncodeError"
    ELSE IF \E k \in 1..Len(encoding) : encoding[k] = 0 THEN "ValueError"
    ELSE "none"

\* bytes.decode(encoding, errors): [exc, text].  None for a name raises
\* TypeError; empty bytes decode to the empty str under any name that can be
\* passed on.
Decode(b, encoding, errors) ==
    IF encoding = NoEncoding THEN [exc |-> "TypeError", text |-> <<>>]
    ELSE IF NameError(encoding) /= "none" THEN [exc |-> NameError(encoding), text |-> <<>>]
    ELSE IF b = <<>> THEN [exc |-> "none", text |-> <<>>]
    ELSE DecodeWith(CodecOf(encoding), b, errors)

DotCn == Text(<<".", "c", "n">>)
\* The site names of fetch_and_parse's hint, and the one more fallback_decode knows.
FetchHintSites == {Text(<<"s", "i", "n", "a">>), Text(<<"b", "a", "i", "d", "u">>), Text(<<"s", "o", "h", "u">>),
                   Text(<<"1", "6", "3">>), Text(<<"q", "q">>)}
FallbackHintSites == FetchHintSites \cup {Text(<<"z", "h", "i", "h", "u">>)}

\* Line 63: the CJK-site hint of fetch_and_parse.
FetchCjkHint(u) == Contains(u, DotCn) \/ \E site \in FetchHintSites : Contains(u, site)

\* Line 116: the CJK-site hint of fallback_decode (an empty url gives none).
FallbackCjkHint(u) ==
    u /= <<>> /\ (Contains(u, DotCn) \/ \E site \in FallbackHintSites : Contains(u, site))

(***************************************************************************)
(* Encoding resolution.                                                    *)
(***************************************************************************)
CjkEncodings == <<Text(<<"g", "b", "k">>), Text(<<"g", "b", "2", "3", "1", "2">>), Text(<<"g", "b", "1", "8", "0", "3", "0">>),
                  Text(<<"u", "t", "f", "-", "8">>), Text(<<"i", "s", "o", "-", "8", "8", "5", "9", "-", "1">>)>>
OtherEncodings == <<Text(<<"u", "t", "f", "-", "8">>), Text(<<"g", "b", "k">>), Text(<<"g", "b", "2", "3", "1", "2">>),
                    Text(<<"i", "s", "o", "-", "8", "8", "5", "9", "-", "1">>)>>

RECURSIVE TryEncodings(_, _, _), ReturnOrContinue(_, _, _, _)
\* fallback_decode's loop (lines 123-130): the first of encodings[i..] that
\* decodes b strictly, and past the last of them UTF-8 with the undecodable
\* bytes dropped.
TryEncodings(b, encodings, i) ==
    IF i > Len(encodings) THEN Decode(b, Text(<<"u", "t", "f", "-", "8">>), "ignore")
    ELSE ReturnOrContinue(Decode(b, encodings[i], "strict"), b, encodings, i)

\* Lines 124-127: return the text d, or continue after a UnicodeDecodeError.
ReturnOrContinue(d, b, encodings, i) ==
    IF d.exc = "UnicodeDecodeError" THEN TryEncodings(b, encodings, i + 1) ELSE d

fallback_decode(b, u) ==
    TryEncodings(b, IF FallbackCjkHint(u) THEN CjkEncodings ELSE OtherEncodings, 1)

\* requests' Response.text for a response whose encoding is set: the bytes
\* decoded with it under errors = "replace" (with no codec of that name, as
\* UTF-8); the empty string for an empty body.
\* A mutant of ResponseText: the priority list of fallback_decode instead.
ResponseText_PriorityList(r) == fallback_decode(r.content, url)

ResponseTextOr(r, d) ==
    IF d.exc \in {"LookupError", "TypeError"} THEN Decode(r.content, Text(<<"u", "t", "f", "-", "8">>), "replace")
    ELSE d

ResponseText(r) ==
    IF r.content = <<>> THEN [exc |-> "none", text |-> <<>>]
    ELSE ResponseTextOr(r, Decode(r.content, r.encoding, "replace"))

\* chardet.detect's confidence is modelled in hundredths; line 76 asks for more
\* than 0.8.
ConfidenceThreshold == 80

\* What chardet.detect may answer for the first 1024 bytes; the last of the
\* names is of an encoding Python has no codec for.
DetectedEncodings ==
    {Text(<<"a", "s", "c", "i", "i">>),
     Text(<<"u", "t", "f", "-", "8">>),
     Text(<<"G", "B", "2", "3", "1", "2">>),
     Text(<<"I", "S", "O", "-", "8", "8", "5", "9", "-", "1">>),
     Text(<<"W", "i", "n", "d", "o", "w", "s", "-", "1", "2", "5", "2">>),
     Text(<<"w", "i", "n", "d", "o", "w", "s", "-", "1", "2", "5", "1">>),
     Text(<<"I", "B", "M", "8", "5", "5">>),
     Text(<<"I", "S", "O", "-", "8", "8", "5", "9", "-", "5">>),
     Text(<<"I", "S", "O", "-", "8", "8", "5", "9", "-", "7">>),
     Text(<<"M", "a", "c", "C", "y", "r", "i", "l", "l", "i", "c">>),
     Text(<<"W", "i", "n", "d", "o", "w", "s", "-", "1", "2", "5", "3">>),
     Text(<<"w", "i", "n", "d", "o", "w", "s", "-", "1", "2", "5", "5">>),
     Text(<<"E", "U", "C", "-", "T", "W">>)}

Detections ==
    {[encoding |-> NoEncoding, confidence |-> 0]} \cup
    [encoding : DetectedEncodings, confidence : {80, 81, 99}]

\* Line 73 runs only when the response declares no encoding.
DetectionsFor(r) ==
    IF r.error /= "none" \/ r.encoding \notin {NoEncoding, <<>>}
    THEN {[encoding |-> NoEncoding, confidence |-> 0]}
    ELSE Detections

\* Lines 67-69: the second strict attempt gave second.
AfterSecondAttempt(r, second) ==
    IF second.exc = "UnicodeDecodeError" THEN ResponseText(r) ELSE second

\* Lines 59-66: the strict decode with the declared encoding gave first.
AfterDeclaredAttempt(r, u, first) ==
    IF first.exc = "UnicodeDecodeError"
    THEN AfterSecondAttempt(r, Decode(r.content,
                                      IF FetchCjkHint(u) THEN Text(<<"g", "b", "k">>)
                                      ELSE Text(<<"u", "t", "f", "-", "8">>),
                                      "strict"))
    ELSE first

\* Lines 78-82: the lenient decode with the detected encoding gave d; the bare
\* except sends any exception to fallback_decode.
AfterDetectedAttempt(r, u, d) ==
    IF d.exc /= "none" THEN fallback_decode(r.content, u) ELSE d

\* Lines 56-85 of fetch_and_parse: the value of `content`, or the exception
\* that leaves the block.
ResolveEncoding(r, u, detected) ==
    IF r.encoding \notin {NoEncoding, <<>>}
    THEN AfterDeclaredAttempt(r, u, Decode(r.content, r.encoding, "strict"))
    ELSE IF detected.confidence > ConfidenceThreshold
    THEN AfterDetectedAttempt(r, u, Decode(r.content, detected.encoding, "ignore"))
    ELSE fallback_decode(r.content, u)

(***************************************************************************)
(* Documents.  A document is [kind |-> "document", kids |-> its top-level  *)
(* nodes]; None is [kind |-> "None"].  A node is an element or a string.   *)
(* An element carries its tag, the attributes the analyzers read (an       *)
(* absent attribute is the empty value, which is how every analyzer reads  *)
(* it; class and rel are lists of tokens) and its children.  A string      *)
(* carries its text; its tag names its class: #text (NavigableString),     *)
(* #cdata (CData), #string (the strings inside script, style, template, rt *)
(* and rp), #comment, #doctype, #declaration, #pi.                         *)
(***************************************************************************)
None == [kind |-> "None", kids |-> <<>>]

Document(kids) == [kind |-> "document", kids |-> kids]

El(tag) ==
    [tag |-> tag, class |-> <<>>, id |-> <<>>, name |-> <<>>, rel |-> <<>>,
     content |-> <<>>, href |-> <<>>, alt |-> <<>>, text |-> <<>>, kids |-> <<>>]

TextTag == Text(<<"#", "t", "e", "x", "t">>)
CDataTag == Text(<<"#", "c", "d", "a", "t", "a">>)
StringTag == Text(<<"#", "s", "t", "r", "i", "n", "g">>)
CommentTag == Text(<<"#", "c", "o", "m", "m", "e", "n", "t">>)
DoctypeTag == Text(<<"#", "d", "o", "c", "t", "y", "p", "e">>)
DeclarationTag == Text(<<"#", "d", "e", "c", "l", "a", "r", "a", "t", "i", "o", "n">>)
PiTag == Text(<<"#", "p", "i">>)

\* A string of class tag.
StringNode(tag, t) == [El(tag) EXCEPT !.text = t]

\* A NavigableString; the empty text makes no node.
TextNode(t) == IF t = <<>> THEN <<>> ELSE <<StringNode(TextTag, t)>>

\* Whether a multi-valued attribute holds the token t.
HasToken(tokens, t) == \E i \in 1..Len(tokens) : tokens[i] = t

RECURSIVE Descendants(_)
\* The elements below kids, in document order.
Descendants(kids) ==
    IF kids = <<>> THEN <<>>
    ELSE <<Head(kids)>> \o Descendants(Head(kids).kids) \o Descendants(Tail(kids))

\* Tag.find_all / BeautifulSoup.find_all by tag name.
FindAll(kids, tags) == SelectSeq(Descendants(kids), LAMBDA e : e.tag \in tags)

\* str.isspace, character by character.
IsSpace(c) ==
    \/ c >= 9 /\ c <= 13
    \/ c >= 28 /\ c <= 32
    \/ c \in {133, 160, 5760, 8232, 8233, 8239, 8287, 12288}
    \/ c >= 8192 /\ c <= 8202

\* str.strip().
StripText(t) ==
    LET keep == {i \in 1..Len(t) : ~IsSpace(t[i])}
    IN  IF keep = {} THEN <<>>
        ELSE SubSeq(t, CHOOSE i \in keep : \A j \in keep : i <= j,
                       CHOOSE i \in keep : \A j \in keep : i >= j)

RECURSIVE Join(_, _)
Join(strings, sep) ==
    IF strings = <<>> THEN <<>>
    ELSE IF Len(strings) = 1 THEN strings[1]
    ELSE strings[1] \o sep \o Join(Tail(strings), sep)

\* Tag._all_strings(strip=True): the stripped, non-empty strings below kids, in
\* document order.  Only NavigableString and CData count for the elements the
\* analyzers ask.
StrippedStrings(kids) ==
    LET els == SelectSeq(Descendants(kids), LAMBDA e : e.tag \in {TextTag, CDataTag})
    IN  SelectSeq([i \in 1..Len(els) |-> StripText(els[i].text)], LAMBDA t : t /= <<>>)

\* Tag.get_text(strip=True, separator=sep) of an element.
GetText(el, sep) == Join(StrippedStrings(<<el>>), sep)

\* The characters of the CJK block U+4E00..U+9FFF in a text.
ChineseCount(t) == Cardinality({i \in 1..Len(t) : t[i] >= 19968 /\ t[i] <= 40959})

(***************************************************************************)
(* BeautifulSoup(text, 'html.parser'): the tokenizer of html.parser and    *)
(* the tree bs4 builds from its events.                                    *)
(***************************************************************************)
AsciiSpaces == {32, 10, 9, 12, 13}

\* The first position from k on that Stop holds at, and the position past s
\* when there is none.
First(s, k, Stop(_)) ==
    IF k > Len(s) THEN Len(s) + 1
    ELSE CHOOSE j \in k..(Len(s) + 1) :
             /\ j = Len(s) + 1 \/ Stop(j)
             /\ \A m \in k..(j - 1) : ~Stop(m)

\* The first position from k on that holds a character of C.
FirstIn(s, k, C) == First(s, k, LAMBDA j : s[j] \in C)

\* The first position from k on that holds no white space (\s*).
SkipSpaces(s, k) == First(s, k, LAMBDA j : ~IsSpace(s[j]))

\* str.startswith(prefix, k).
StartsWith(s, k, prefix) ==
    k + Len(prefix) - 1 <= Len(s) /\ SubSeq(s, k, k + Len(prefix) - 1) = prefix

\* s[k:].
From(s, k) == SubSeq(s, k, Len(s))

Smaller(a, b) == IF a < b THEN a ELSE b

\* One past the last code point.
TooLarge == 1114112

DigitValue(c) == IF c \in Digits THEN c - Ord("0")
                 ELSE IF c >= Ord("a") THEN c - Ord("a") + 10 ELSE c - Ord("A") + 10

RECURSIVE NumberFrom(_, _, _, _)
\* int(digits, base), cut off at TooLarge.
NumberFrom(digits, i, base, n) ==
    IF i > Len(digits) THEN n
    ELSE NumberFrom(digits, i + 1, base, Smaller(n * base + DigitValue(digits[i]), TooLarge))

\* html.entities.html5: for every name the code points of the name, the
\* characters of &name; and whether the reference is also known bare, without
\* the semicolon.
NamedReferences ==
    <<
       [name |-> <<65, 69, 108, 105, 103>>, chars |-> <<198>>, bare |-> TRUE],  \* AElig
       [name |-> <<65, 77, 80>>, chars |-> <<38>>, bare |-> TRUE],  \* AMP
       [name |-> <<65, 97, 99, 117, 116, 101>>, chars |-> <<193>>, bare |-> TRUE],  \* Aacute
       [name |-> <<65, 98, 114, 101, 118, 101>>, chars |-> <<258>>, bare |-> FALSE],  \* Abreve
       [name |-> <<65, 99, 105, 114, 99>>, chars |-> <<194>>, bare |-> TRUE],  \* Acirc
       [name |-> <<65, 99, 121>>, chars |-> <<1040>>, bare |-> FALSE],  \* Acy
       [name |-> <<65, 102, 114>>, chars |-> <<120068>>, bare |-> FALSE],  \* Afr
       [name |-> <<65, 103, 114, 97, 118, 101>>, chars |-> <<192>>, bare |-> TRUE],  \* Agrave
       [name |-> <<65, 108, 112, 104, 97>>, chars |-> <<913>>, bare |-> FALSE],  \* Alpha
       [name |-> <<65, 109, 97, 99, 114>>, chars |-> <<256>>, bare |-> FALSE],  \* Amacr
       [name |-> <<65, 110, 100>>, chars |-> <<10835>>, bare |-> FALSE],  \* And
       [name |-> <<65, 111, 103, 111, 110>>, chars |-> <<260>>, bare |-> FALSE],  \* Aogon
       [name |-> <<65, 111, 112, 102>>, chars |-> <<120120>>, bare |-> FALSE],  \* Aopf
       [name |-> <<65, 112, 112, 108, 121, 70, 117, 110, 99, 116, 105, 111, 110>>, chars |-> <<8289>>, bare |-> FALSE],  \* ApplyFunction
       [name |-> <<65, 114, 105, 110, 103>>, chars |-> <<197>>, bare |-> TRUE],  \* Aring
       [name |-> <<65, 115, 99, 114>>, chars |-> <<119964>>, bare |-> FALSE],  \* Ascr
       [name |-> <<65, 115, 115, 105, 103, 110>>, chars |-> <<8788>>, bare |-> FALSE],  \* Assign
       [name |-> <<65, 116, 105, 108, 100, 101>>, chars |-> <<195>>, bare |-> TRUE],  \* Atilde
       [name |-> <<65, 117, 109, 108>>, chars |-> <<196>>, bare |-> TRUE],  \* Auml
       [name |-> <<66, 97, 99, 107, 115, 108, 97, 115, 104>>, chars |-> <<8726>>, bare |-> FALSE],  \* Backslash
       [name |-> <<66, 97, 114, 118>>, chars |-> <<10983>>, bare |-> FALSE],  \* Barv
       [name |-> <<66, 97, 114, 119, 101, 100>>, chars |-> <<8966>>, bare |-> FALSE],  \* Barwed
       [name |-> <<66, 99, 121>>, chars |-> <<1041>>, bare |-> FALSE],  \* Bcy
       [name |-> <<66, 101, 99, 97, 117, 115, 101>>, chars |-> <<8757>>, bare |-> FALSE],  \* Because
       [name |-> <<66, 101, 114, 110, 111, 117, 108, 108, 105, 115>>, chars |-> <<8492>>, bare |-> FALSE],  \* Bernoullis
       [name |-> <<66, 101, 116, 97>>, chars |-> <<914>>, bare |-> FALSE],  \* Beta
       [name |-> <<66, 102, 114>>, chars |-> <<120069>>, bare |-> FALSE],  \* Bfr
       [name |-> <<66, 111, 112, 102>>, chars |-> <<120121>>, bare |-> FALSE],  \* Bopf
       [name |-> <<66, 114, 101, 118, 101>>, chars |-> <<728>>, bare |-> FALSE],  \* Breve
       [name |-> <<66, 115, 99, 114>>, chars |-> <<8492>>, bare |-> FALSE],  \* Bscr
       [name |-> <<66, 117, 109, 112, 101, 113>>, chars |-> <<8782>>, bare |-> FALSE],  \* Bumpeq
       [name |-> <<67, 72, 99, 121>>, chars |-> <<1063>>, bare |-> FALSE],  \* CHcy
       [name |-> <<67, 79, 80, 89>>, chars |-> <<169>>, bare |-> TRUE],  \* COPY
       [name |-> <<67, 97, 99, 117, 116, 101>>, chars |-> <<262>>, bare |-> FALSE],  \* Cacute
       [name |-> <<67, 97, 112>>, chars |-> <<8914>>, bare |-> FALSE],  \* Cap
       [name |-> <<67, 97, 112, 105, 116, 97, 108, 68, 105, 102, 102, 101, 114, 101, 110, 116, 105, 97, 108, 68>>, chars |-> <<8517>>, bare |-> FALSE],  \* CapitalDifferentialD
       [name |-> <<67, 97, 121, 108, 101, 121, 115>>, chars |-> <<8493>>, bare |-> FALSE],  \* Cayleys
       [name |-> <<67, 99, 97, 114, 111, 110>>, chars |-> <<268>>, bare |-> FALSE],  \* Ccaron
       [name |-> <<67, 99, 101, 100, 105, 108>>, chars |-> <<199>>, bare |-> TRUE],  \* Ccedil
       [name |-> <<67, 99, 105, 114, 99>>, chars |-> <<264>>, bare |-> FALSE],  \* Ccirc
       [name |-> <<67, 99, 111, 110, 105, 110, 116>>, chars |-> <<8752>>, bare |-> FALSE],  \* Cconint
       [name |-> <<67, 100, 111, 116>>, chars |-> <<266>>, bare |-> FALSE],  \* Cdot
       [name |-> <<67, 101, 100, 105, 108, 108, 97>>, chars |-> <<184>>, bare |-> FALSE],  \* Cedilla
       [name |-> <<67, 101, 110, 116, 101, 114, 68, 111, 116>>, chars |-> <<183>>, bare |-> FALSE],  \* CenterDot
       [name |-> <<67, 102, 114>>, chars |-> <<8493>>, bare |-> FALSE],  \* Cfr
       [name |-> <<67, 104, 105>>, chars |-> <<935>>, bare |-> FALSE],  \* Chi
       [name |-> <<67, 105, 114, 99, 108, 101, 68, 111, 116>>, chars |-> <<8857>>, bare |-> FALSE],  \* CircleDot
       [name |-> <<67, 105, 114, 99, 108, 101, 77, 105, 110, 117, 115>>, chars |-> <<8854>>, bare |-> FALSE],  \* CircleMinus
       [name |-> <<67, 105, 114, 99, 108, 101, 80, 108, 117, 115>>, chars |-> <<8853>>, bare |-> FALSE],  \* CirclePlus
       [name |-> <<67, 105, 114, 99, 108, 101, 84, 105, 109, 101, 115>>, chars |-> <<8855>>, bare |-> FALSE],  \* CircleTimes
       [name |-> <<67, 108, 111, 99, 107, 119, 105, 115, 101, 67, 111, 110, 116, 111, 117, 114, 73, 110, 116, 101, 103, 114, 97, 108>>, chars |-> <<8754>>, bare |-> FALSE],  \* ClockwiseContourIntegral
       [name |-> <<67, 108, 111, 115, 101, 67, 117, 114, 108, 121, 68, 111, 117, 98, 108, 101, 81, 117, 111, 116, 101>>, chars |-> <<8221>>, bare |-> FALSE],  \* CloseCurlyDoubleQuote
       [name |-> <<67, 108, 111, 115, 101, 67, 117, 114, 108, 121, 81, 117, 111, 116, 101>>, chars |-> <<8217>>, bare |-> FALSE],  \* CloseCurlyQuote
       [name |-> <<67, 111, 108, 111, 110>>, chars |-> <<8759>>, bare |-> FALSE],  \* Colon
       [name |-> <<67, 111, 108, 111, 110, 101>>, chars |-> <<10868>>, bare |-> FALSE],  \* Colone
       [name |-> <<67, 111, 110, 103, 114, 117, 101, 110, 116>>, chars |-> <<8801>>, bare |-> FALSE],  \* Congruent
       [name |-> <<67, 111, 110, 105, 110, 116>>, chars |-> <<8751>>, bare |-> FALSE],  \* Conint
       [name |-> <<67, 111, 110, 116, 111, 117, 114, 73, 110, 116, 101, 103, 114, 97, 108>>, chars |-> <<8750>>, bare |-> FALSE],  \* ContourIntegral
       [name |-> <<67, 111, 112, 102>>, chars |-> <<8450>>, bare |-> FALSE],  \* Copf
       [name |-> <<67, 111, 112, 114, 111, 100, 117, 99, 116>>, chars |-> <<8720>>, bare |-> FALSE],  \* Coproduct
       [name |-> <<67, 111, 117, 110, 116, 101, 114, 67, 108, 111, 99, 107, 119, 105, 115, 101, 67, 111, 110, 116, 111, 117, 114, 73, 110, 116, 101, 103, 114, 97, 108>>, chars |-> <<8755>>, bare |-> FALSE],  \* CounterClockwiseContourIntegral
       [name |-> <<67, 114, 111, 115, 115>>, chars |-> <<10799>>, bare |-> FALSE],  \* Cross
       [name |-> <<67, 115, 99, 114>>, chars |-> <<119966>>, bare |-> FALSE],  \* Cscr
       [name |-> <<67, 117, 112>>, chars |-> <<8915>>, bare |-> FALSE],  \* Cup
       [name |-> <<67, 117, 112, 67, 97, 112>>, chars |-> <<8781>>, bare |-> FALSE],  \* CupCap
       [name |-> <<68, 68>>, chars |-> <<8517>>, bare |-> FALSE],  \* DD
       [name |-> <<68, 68, 111, 116, 114, 97, 104, 100>>, chars |-> <<10513>>, bare |-> FALSE],  \* DDotrahd
       [name |-> <<68, 74, 99, 121>>, chars |-> <<1026>>, bare |-> FALSE],  \* DJcy
       [name |-> <<68, 83, 99, 121>>, chars |-> <<1029>>, bare |-> FALSE],  \* DScy
       [name |-> <<68, 90, 99, 121>>, chars |-> <<1039>>, bare |-> FALSE],  \* DZcy
       [name |-> <<68, 97, 103, 103, 101, 114>>, chars |-> <<8225>>, bare |-> FALSE],  \* Dagger
       [name |-> <<68, 97, 114, 114>>, chars |-> <<8609>>, bare |-> FALSE],  \* Darr
       [name |-> <<68, 97, 115, 104, 118>>, chars |-> <<10980>>, bare |-> FALSE],  \* Dashv
       [name |-> <<68, 99, 97, 114, 111, 110>>, chars |-> <<270>>, bare |-> FALSE],  \* Dcaron
       [name |-> <<68, 99, 121>>, chars |-> <<1044>>, bare |-> FALSE],  \* Dcy
       [name |-> <<68, 101, 108>>, chars |-> <<8711>>, bare |-> FALSE],  \* Del
       [name |-> <<68, 101, 108, 116, 97>>, chars |-> <<916>>, bare |-> FALSE],  \* Delta
       [name |-> <<68, 102, 114>>, chars |-> <<120071>>, bare |-> FALSE],  \* Dfr
       [name |-> <<68, 105, 97, 99, 114, 105, 116, 105, 99, 97, 108, 65, 99, 117, 116, 101>>, chars |-> <<180>>, bare |-> FALSE],  \* DiacriticalAcute
       [name |-> <<68, 105, 97, 99, 114, 105, 116, 105, 99, 97, 108, 68, 111, 116>>, chars |-> <<729>>, bare |-> FALSE],  \* DiacriticalDot
       [name |-> <<68, 105, 97, 99, 114, 105, 116, 105, 99, 97, 108, 68, 111, 117, 98, 108, 101, 65, 99, 117, 116, 101>>, chars |-> <<733>>, bare |-> FALSE],  \* DiacriticalDoubleAcute
       [name |-> <<68, 105, 97, 99, 114, 105, 116, 105, 99, 97, 108, 71, 114, 97, 118, 101>>, chars |-> <<96>>, bare |-> FALSE],  \* DiacriticalGrave
       [name |-> <<68, 105, 97, 99, 114, 105, 116, 105, 99, 97, 108, 84, 105, 108, 100, 101>>, chars |-> <<732>>, bare |-> FALSE],  \* DiacriticalTilde
       [name |-> <<68, 105, 97, 109, 111, 110, 100>>, chars |-> <<8900>>, bare |-> FALSE],  \* Diamond
       [name |-> <<68, 105, 102, 102, 101, 114, 101, 110, 116, 105, 97, 108, 68>>, chars |-> <<8518>>, bare |-> FALSE],  \* DifferentialD
       [name |-> <<68, 111, 112, 102>>, chars |-> <<120123>>, bare |-> FALSE],  \* Dopf
       [name |-> <<68, 111, 116>>, chars |-> <<168>>, bare |-> FALSE],  \* Dot
       [name |-> <<68, 111, 116, 68, 111, 116>>, chars |-> <<8412>>, bare |-> FALSE],  \* DotDot
       [name |-> <<68, 111, 116, 69, 113, 117, 97, 108>>, chars |-> <<8784>>, bare |-> FALSE],  \* DotEqual
       [name |-> <<68, 111, 117, 98, 108, 101, 67, 111, 110, 116, 111, 117, 114, 73, 110, 116, 101, 103, 114, 97, 108>>, chars |-> <<8751>>, bare |-> FALSE],  \* DoubleContourIntegral
       [name |-> <<68, 111, 117, 98, 108, 101, 68, 111, 116>>, chars |-> <<168>>, bare |-> FALSE],  \* DoubleDot
       [name |-> <<68, 111, 117, 98, 108, 101, 68, 111, 119, 110, 65, 114, 114, 111, 119>>, chars |-> <<8659>>, bare |-> FALSE],  \* DoubleDownArrow
       [name |-> <<68, 111, 117, 98, 108, 101, 76, 101, 102, 116, 65, 114, 114, 111, 119>>, chars |-> <<8656>>, bare |-> FALSE],  \* DoubleLeftArrow
       [name |-> <<68, 111, 117, 98, 108, 101, 76, 101, 102, 116, 82, 105, 103, 104, 116, 65, 114, 114, 111, 119>>, chars |-> <<8660>>, bare |-> FALSE],  \* DoubleLeftRightArrow
       [name |-> <<68, 111, 117, 98, 108, 101, 76, 101, 102, 116, 84, 101, 101>>, chars |-> <<10980>>, bare |-> FALSE],  \* DoubleLeftTee
       [name |-> <<68, 111, 117, 98, 108, 101, 76, 111, 110, 103, 76, 101, 102, 116, 65, 114, 114, 111, 119>>, chars |-> <<10232>>, bare |-> FALSE],  \* DoubleLongLeftArrow
       [name |-> <<68, 111, 117, 98, 108, 101, 76, 111, 110, 103, 76, 101, 102, 116, 82, 105, 103, 104, 116, 65, 114, 114, 111, 119>>, chars |-> <<10234>>, bare |-> FALSE],  \* DoubleLongLeftRightArrow
       [name |-> <<68, 111, 117, 98, 108, 101, 76, 111, 110, 103, 82, 105, 103, 104, 116, 65, 114, 114, 111, 119>>, chars |-> <<10233>>, bare |-> FALSE],  \* DoubleLongRightArrow
       [name |-> <<68, 111, 117, 98, 108, 101, 82, 105, 103, 104, 116, 65, 114, 114, 111, 119>>, chars |-> <<8658>>, bare |-> FALSE],  \* DoubleRightArrow
       [name |-> <<68, 111, 117, 98, 108, 101, 82, 105, 103, 104, 116, 84, 101, 101>>, chars |-> <<8872>>, bare |-> FALSE],  \* DoubleRightTee
       [name |-> <<68, 111, 117, 98, 108, 101, 85, 112, 65, 114, 114, 111, 119>>, chars |-> <<8657>>, bare |-> FALSE],  \* DoubleUpArrow
       [name |-> <<68, 111, 117, 98, 108, 101, 85, 112, 68, 111, 119, 110, 65, 114, 114, 111, 119>>, chars |-> <<8661>>, bare |-> FALSE],  \* DoubleUpDownArrow
       [name |-> <<68, 111, 117, 98, 108, 101, 86, 101, 114, 116, 105, 99, 97, 108, 66, 97, 114>>, chars |-> <<8741>>, bare |-> FALSE],  \* DoubleVerticalBar
       [name |-> <<68, 111, 119, 110, 65, 114, 114, 111, 119>>, chars |-> <<8595>>, bare |-> FALSE],  \* DownArrow
       [name |-> <<68, 111, 119, 110, 65, 114, 114, 111, 119, 66, 97, 114>>, chars |-> <<10515>>, bare |-> FALSE],  \* DownArrowBar
       [name |-> <<68, 111, 119, 110, 65, 114, 114, 111, 119, 85, 112, 65, 114, 114, 111, 119>>, chars |-> <<8693>>, bare |-> FALSE],  \* DownArrowUpArrow
       [name |-> <<68, 111, 119, 110, 66, 114, 101, 118, 101>>, chars |-> <<785>>, bare |-> FALSE],  \* DownBreve
       [name |-> <<68, 111, 119, 110, 76, 101, 102, 116, 82, 105, 103, 104, 116, 86, 101, 99, 116, 111, 114>>, chars |-> <<10576>>, bare |-> FALSE],  \* DownLeftRightVector
       [name |-> <<68, 111, 119, 110, 76, 101, 102, 116, 84, 101, 101, 86, 101, 99, 116, 111, 114>>, chars |-> <<10590>>, bare |-> FALSE],  \* DownLeftTeeVector
       [name |-> <<68, 111, 119, 110, 76, 101, 102, 116, 86, 101, 99, 116, 111, 114>>, chars |-> <<8637>>, bare |-> FALSE],  \* DownLeftVector
       [name |-> <<68, 111, 119, 110, 76, 101, 102, 116, 86, 101, 99, 116, 111, 114, 66, 97, 114>>, chars |-> <<10582>>, bare |-> FALSE],  \* DownLeftVectorBar
       [name |-> <<68, 111, 119, 110, 82, 105, 103, 104, 116, 84, 101, 101, 86, 101, 99, 116, 111, 114>>, chars |-> <<10591>>, bare |-> FALSE],  \* DownRightTeeVector
       [name |-> <<68, 111, 119, 110, 82, 105, 103, 104, 116, 86, 101, 99, 116, 111, 114>>, chars |-> <<8641>>, bare |-> FALSE],  \* DownRightVector
       [name |-> <<68, 111, 119, 110, 82, 105, 103, 104, 116, 86, 101, 99, 116, 111, 114, 66, 97, 114>>, chars |-> <<10583>>, bare |-> FALSE],  \* DownRightVectorBar
       [name |-> <<68, 111, 119, 110, 84, 101, 101>>, chars |-> <<8868>>, bare |-> FALSE],  \* DownTee
       [name |-> <<68, 111, 119, 110, 84, 101, 101, 65, 114, 114, 111, 119>>, chars |-> <<8615>>, bare |-> FALSE],  \* DownTeeArrow
       [name |-> <<68, 111, 119, 110, 97, 114, 114, 111, 119>>, chars |-> <<8659>>, bare |-> FALSE],  \* Downarrow
       [name |-> <<68, 115, 99, 114>>, chars |-> <<119967>>, bare |-> FALSE],  \* Dscr
       [name |-> <<68, 115, 116, 114, 111, 107>>, chars |-> <<272>>, bare |-> FALSE],  \* Dstrok
       [name |-> <<69, 78, 71>>, chars |-> <<330>>, bare |-> FALSE],  \* ENG
       [name |-> <<69, 84, 72>>, chars |-> <<208>>, bare |-> TRUE],  \* ETH
       [name |-> <<69, 97, 99, 117, 116, 101>>, chars |-> <<201>>, bare |-> TRUE],  \* Eacute
       [name |-> <<69, 99, 97, 114, 111, 110>>, chars |-> <<282>>, bare |-> FALSE],  \* Ecaron
       [name |-> <<69, 99, 105, 114, 99>>, chars |-> <<202>>, bare |-> TRUE],  \* Ecirc
       [name |-> <<69, 99, 121>>, chars |-> <<1069>>, bare |-> FALSE],  \* Ecy
       [name |-> <<69, 100, 111, 116>>, chars |-> <<278>>, bare |-> FALSE],  \* Edot
       [name |-> <<69, 102, 114>>, chars |-> <<120072>>, bare |-> FALSE],  \* Efr
       [name |-> <<69, 103, 114, 97, 118, 101>>, chars |-> <<200>>, bare |-> TRUE],  \* Egrave
       [name |-> <<69, 108, 101, 109, 101, 110, 116>>, chars |-> <<8712>>, bare |-> FALSE],  \* Element
       [name |-> <<69, 109, 97, 99, 114>>, chars |-> <<274>>, bare |-> FALSE],  \* Emacr
       [name |-> <<69, 109, 112, 116, 121, 83, 109, 97, 108, 108, 83, 113, 117, 97, 114, 101>>, chars |-> <<9723>>, bare |-> FALSE],  \* EmptySmallSquare
       [name |-> <<69, 109, 112, 116, 121, 86, 101, 114, 121, 83, 109, 97, 108, 108, 83, 113, 117, 97, 114, 101>>, chars |-> <<9643>>, bare |-> FALSE],  \* EmptyVerySmallSquare
       [name |-> <<69, 111, 103, 111, 110>>, chars |-> <<280>>, bare |-> FALSE],  \* Eogon
       [name |-> <<69, 111, 112, 102>>, chars |-> <<120124>>, bare |-> FALSE],  \* Eopf
       [name |-> <<69, 112, 115, 105, 108, 111, 110>>, chars |-> <<917>>, bare |-> FALSE],  \* Epsilon
       [name |-> <<69, 113, 117, 97, 108>>, chars |-> <<10869>>, bare |-> FALSE],  \* Equal
       [name |-> <<69, 113, 117, 97, 108, 84, 105, 108, 100, 101>>, chars |-> <<8770>>, bare |-> FALSE],  \* EqualTilde
       [name |-> <<69, 113, 117, 105, 108, 105, 98, 114, 105, 117, 109>>, chars |-> <<8652>>, bare |-> FALSE],  \* Equilibrium
       [name |-> <<69, 115, 99, 114>>, chars |-> <<8496>>, bare |-> FALSE],  \* Escr
       [name |-> <<69, 115, 105, 109>>, chars |-> <<10867>>, bare |-> FALSE],  \* Esim
       [name |-> <<69, 116, 97>>, chars |-> <<919>>, bare |-> FALSE],  \* Eta
       [name |-> <<69, 117, 109, 108>>, chars |-> <<203>>, bare |-> TRUE],  \* Euml
       [name |-> <<69, 120, 105, 115, 116, 115>>, chars |-> <<8707>>, bare |-> FALSE],  \* Exists
       [name |-> <<69, 120, 112, 111, 110, 101, 110, 116, 105, 97, 108, 69>>, chars |-> <<8519>>, bare |-> FALSE],  \* ExponentialE
       [name |-> <<70, 99, 121>>, chars |-> <<1060>>, bare |-> FALSE],  \* Fcy
       [name |-> <<70, 102, 114>>, chars |-> <<120073>>, bare |-> FALSE],  \* Ffr
       [name |-> <<70, 105, 108, 108, 101, 100, 83, 109, 97, 108, 108, 83, 113, 117, 97, 114, 101>>, chars |-> <<9724>>, bare |-> FALSE],  \* FilledSmallSquare
       [name |-> <<70, 105, 108, 108, 101, 100, 86, 101, 114, 121, 83, 109, 97, 108, 108, 83, 113, 117, 97, 114, 101>>, chars |-> <<9642>>, bare |-> FALSE],  \* FilledVerySmallSquare
       [name |-> <<70, 111, 112, 102>>, chars |-> <<120125>>, bare |-> FALSE],  \* Fopf
       [name |-> <<70, 111, 114, 65, 108, 108>>, chars |-> <<8704>>, bare |-> FALSE],  \* ForAll
       [name |-> <<70, 111, 117, 114, 105, 101, 114, 116, 114, 102>>, chars |-> <<8497>>, bare |-> FALSE],  \* Fouriertrf
       [name |-> <<70, 115, 99, 114>>, chars |-> <<8497>>, bare |-> FALSE],  \* Fscr
       [name |-> <<71, 74, 99, 121>>, chars |-> <<1027>>, bare |-> FALSE],  \* GJcy
       [name |-> <<71, 84>>, chars |-> <<62>>, bare |-> TRUE],  \* GT
       [name |-> <<71, 97, 109, 109, 97>>, chars |-> <<915>>, bare |-> FALSE],  \* Gamma
       [name |-> <<71, 97, 109, 109, 97, 100>>, chars |-> <<988>>, bare |-> FALSE],  \* Gammad
       [name |-> <<71, 98, 114, 101, 118, 101>>, chars |-> <<286>>, bare |-> FALSE],  \* Gbreve
       [name |-> <<71, 99, 101, 100, 105, 108>>, chars |-> <<290>>, bare |-> FALSE],  \* Gcedil
       [name |-> <<71, 99, 105, 114, 99>>, chars |-> <<284>>, bare |-> FALSE],  \* Gcirc
       [name |-> <<71, 99, 121>>, chars |-> <<1043>>, bare |-> FALSE],  \* Gcy
       [name |-> <<71, 100, 111, 116>>, chars |-> <<288>>, bare |-> FALSE],  \* Gdot
       [name |-> <<71, 102, 114>>, chars |-> <<120074>>, bare |-> FALSE],  \* Gfr
       [name |-> <<71, 103>>, chars |-> <<8921>>, bare |-> FALSE],  \* Gg
       [name |-> <<71, 111, 112, 102>>, chars |-> <<120126>>, bare |-> FALSE],  \* Gopf
       [name |-> <<71, 114, 101, 97, 116, 101, 114, 69, 113, 117, 97, 108>>, chars |-> <<8805>>, bare |-> FALSE],  \* GreaterEqual
       [name |-> <<71, 114, 101, 97, 116, 101, 114, 69, 113, 117, 97, 108, 76, 101, 115, 115>>, chars |-> <<8923>>, bare |-> FALSE],  \* GreaterEqualLess
       [name |-> <<71, 114, 101, 97, 116, 101, 114, 70, 117, 108, 108, 69, 113, 117, 97, 108>>, chars |-> <<8807>>, bare |-> FALSE],  \* GreaterFullEqual
       [name |-> <<71, 114, 101, 97, 116, 101, 114, 71, 114, 101, 97, 116, 101, 114>>, chars |-> <<10914>>, bare |-> FALSE],  \* GreaterGreater
       [name |-> <<71, 114, 101, 97, 116, 101, 114, 76, 101, 115, 115>>, chars |-> <<8823>>, bare |-> FALSE],  \* GreaterLess
       [name |-> <<71, 114, 101, 97, 116, 101, 114, 83, 108, 97, 110, 116, 69, 113, 117, 97, 108>>, chars |-> <<10878>>, bare |-> FALSE],  \* GreaterSlantEqual
       [name |-> <<71, 114, 101, 97, 116, 101, 114, 84, 105, 108, 100, 101>>, chars |-> <<8819>>, bare |-> FALSE],  \* GreaterTilde
       [name |-> <<71, 115, 99, 114>>, chars |-> <<119970>>, bare |-> FALSE],  \* Gscr
       [name |-> <<71, 116>>, chars |-> <<8811>>, bare |-> FALSE],  \* Gt
       [name |-> <<72, 65, 82, 68, 99, 121>>, chars |-> <<1066>>, bare |-> FALSE],  \* HARDcy
       [name |-> <<72, 97, 99, 101, 107>>, chars |-> <<711>>, bare |-> FALSE],  \* Hacek
       [name |-> <<72, 97, 116>>, chars |-> <<94>>, bare |-> FALSE],  \* Hat
       [name |-> <<72, 99, 105, 114, 99>>, chars |-> <<292>>, bare |-> FALSE],  \* Hcirc
       [name |-> <<72, 102, 114>>, chars |-> <<8460>>, bare |-> FALSE],  \* Hfr
       [name |-> <<72, 105, 108, 98, 101, 114, 116, 83, 112, 97, 99, 101>>, chars |-> <<8459>>, bare |-> FALSE],  \* HilbertSpace
       [name |-> <<72, 111, 112, 102>>, chars |-> <<8461>>, bare |-> FALSE],  \* Hopf
       [name |-> <<72, 111, 114, 105, 122, 111, 110, 116, 97, 108, 76, 105, 110, 101>>, chars |-> <<9472>>, bare |-> FALSE],  \* HorizontalLine
       [name |-> <<72, 115, 99, 114>>, chars |-> <<8459>>, bare |-> FALSE],  \* Hscr
       [name |-> <<72, 115, 116, 114, 111, 107>>, chars |-> <<294>>, bare |-> FALSE],  \* Hstrok
       [name |-> <<72, 117, 109, 112, 68, 111, 119, 110, 72, 117, 109, 112>>, chars |-> <<8782>>, bare |-> FALSE],  \* HumpDownHump
       [name |-> <<72, 117, 109, 112, 69, 113, 117, 97, 108>>, chars |-> <<8783>>, bare |-> FALSE],  \* HumpEqual
       [name |-> <<73, 69, 99, 121>>, chars |-> <<1045>>, bare |-> FALSE],  \* IEcy
       [name |-> <<73, 74, 108, 105, 103>>, chars |-> <<306>>, bare |-> FALSE],  \* IJlig
       [name |-> <<73, 79, 99, 121>>, chars |-> <<1025>>, bare |-> FALSE],  \* IOcy
       [name |-> <<73, 97, 99, 117, 116, 101>>, chars |-> <<205>>, bare |-> TRUE],  \* Iacute
       [name |-> <<73, 99, 105, 114, 99>>, chars |-> <<206>>, bare |-> TRUE],  \* Icirc
       [name |-> <<73, 99, 121>>, chars |-> <<1048>>, bare |-> FALSE],  \* Icy
       [name |-> <<73, 100, 111, 116>>, chars |-> <<304>>, bare |-> FALSE],  \* Idot
       [name |-> <<73, 102, 114>>, chars |-> <<8465>>, bare |-> FALSE],  \* Ifr
       [name |-> <<73, 103, 114, 97, 118, 101>>, chars |-> <<204>>, bare |-> TRUE],  \* Igrave
       [name |-> <<73, 109>>, chars |-> <<8465>>, bare |-> FALSE],  \* Im
       [name |-> <<73, 109, 97, 99, 114>>, chars |-> <<298>>, bare |-> FALSE],  \* Imacr
       [name |-> <<73, 109, 97, 103, 105, 110, 97, 114, 121, 73>>, chars |-> <<8520>>, bare |-> FALSE],  \* ImaginaryI
       [name |-> <<73, 109, 112, 108, 105, 101, 115>>, chars |-> <<8658>>, bare |-> FALSE],  \* Implies
       [name |-> <<73, 110, 116>>, chars |-> <<8748>>, bare |-> FALSE],  \* Int
       [name |-> <<73, 110, 116, 101, 103, 114, 97, 108>>, chars |-> <<8747>>, bare |-> FALSE],  \* Integral
       [name |-> <<73, 110, 116, 101, 114, 115, 101, 99, 116, 105, 111, 110>>, chars |-> <<8898>>, bare |-> FALSE],  \* Intersection
       [name |-> <<73, 110, 118, 105, 115, 105, 98, 108, 101, 67, 111, 109, 109, 97>>, chars |-> <<8291>>, bare |-> FALSE],  \* InvisibleComma
       [name |-> <<73, 110, 118, 105, 115, 105, 98, 108, 101, 84, 105, 109, 101, 115>>, chars |-> <<8290>>, bare |-> FALSE],  \* InvisibleTimes
       [name |-> <<73, 111, 103, 111, 110>>, chars |-> <<302>>, bare |-> FALSE],  \* Iogon
       [name |-> <<73, 111, 112, 102>>, chars |-> <<120128>>, bare |-> FALSE],  \* Iopf
       [name |-> <<73, 111, 116, 97>>, chars |-> <<921>>, bare |-> FALSE],  \* Iota
       [name |-> <<73, 115, 99, 114>>, chars |-> <<8464>>, bare |-> FALSE],  \* Iscr
       [name |-> <<73, 116, 105, 108, 100, 101>>, chars |-> <<296>>, bare |-> FALSE],  \* Itilde
       [name |-> <<73, 117, 107, 99, 121>>, chars |-> <<1030>>, bare |-> FALSE],  \* Iukcy
       [name |-> <<73, 117, 109, 108>>, chars |-> <<207>>, bare |-> TRUE],  \* Iuml
       [name |-> <<74, 99, 105, 114, 99>>, chars |-> <<308>>, bare |-> FALSE],  \* Jcirc
       [name |-> <<74, 99, 121>>, chars |-> <<1049>>, bare |-> FALSE],  \* Jcy
       [name |-> <<74, 102, 114>>, chars |-> <<120077>>, bare |-> FALSE],  \* Jfr
       [name |-> <<74, 111, 112, 102>>, chars |-> <<120129>>, bare |-> FALSE],  \* Jopf
       [name |-> <<74, 115, 99, 114>>, chars |-> <<119973>>, bare |-> FALSE],  \* Jscr
       [name |-> <<74, 115, 101, 114, 99, 121>>, chars |-> <<1032>>, bare |-> FALSE],  \* Jsercy
       [name |-> <<74, 117, 107, 99, 121>>, chars |-> <<1028>>, bare |-> FALSE],  \* Jukcy
       [name |-> <<75, 72, 99, 121>>, chars |-> <<1061>>, bare |-> FALSE],  \* KHcy
       [name |-> <<75, 74, 99, 121>>, chars |-> <<1036>>, bare |-> FALSE],  \* KJcy
       [name |-> <<75, 97, 112, 112, 97>>, chars |-> <<922>>, bare |-> FALSE],  \* Kappa
       [name |-> <<75, 99, 101, 100, 105, 108>>, chars |-> <<310>>, bare |-> FALSE],  \* Kcedil
       [name |-> <<75, 99, 121>>, chars |-> <<1050>>, bare |-> FALSE],  \* Kcy
       [name |-> <<75, 102, 114>>, chars |-> <<120078>>, bare |-> FALSE],  \* Kfr
       [name |-> <<75, 111, 112, 102>>, chars |-> <<120130>>, bare |-> FALSE],  \* Kopf
       [name |-> <<75, 115, 99, 114>>, chars |-> <<119974>>, bare |-> FALSE],  \* Kscr
       [name |-> <<76, 74, 99, 121>>, chars |-> <<1033>>, bare |-> FALSE],  \* LJcy
       [name |-> <<76, 84>>, chars |-> <<60>>, bare |-> TRUE],  \* LT
       [name |-> <<76, 97, 99, 117, 116, 101>>, chars |-> <<313>>, bare |-> FALSE],  \* Lacute
       [name |-> <<76, 97, 109, 98, 100, 97>>, chars |-> <<923>>, bare |-> FALSE],  \* Lambda
       [name |-> <<76, 97, 110, 103>>, chars |-> <<10218>>, bare |-> FALSE],  \* Lang
       [name |-> <<76, 97, 112, 108, 97, 99, 101, 116, 114, 102>>, chars |-> <<8466>>, bare |-> FALSE],  \* Laplacetrf
       [name |-> <<76, 97, 114, 114>>, chars |-> <<8606>>, bare |-> FALSE],  \* Larr
       [name |-> <<76, 99, 97, 114, 111, 110>>, chars |-> <<317>>, bare |-> FALSE],  \* Lcaron
       [name |-> <<76, 99, 101, 100, 105, 108>>, chars |-> <<315>>, bare |-> FALSE],  \* Lcedil
       [name |-> <<76, 99, 121>>, chars |-> <<1051>>, bare |-> FALSE],  \* Lcy
       [name |-> <<76, 101, 102, 116, 65, 110, 103, 108, 101, 66, 114, 97, 99, 107, 101, 116>>, chars |-> <<10216>>, bare |-> FALSE],  \* LeftAngleBracket
       [name |-> <<76, 101, 102, 116, 65, 114, 114, 111, 119>>, chars |-> <<8592>>, bare |-> FALSE],  \* LeftArrow
       [name |-> <<76, 101, 102, 116, 65, 114, 114, 111, 119, 66, 97, 114>>, chars |-> <<8676>>, bare |-> FALSE],  \* LeftArrowBar
       [name |-> <<76, 101, 102, 116, 65, 114, 114, 111, 119, 82, 105, 103, 104, 116, 65, 114, 114, 111, 119>>, chars |-> <<8646>>, bare |-> FALSE],  \* LeftArrowRightArrow
       [name |-> <<76, 101, 102, 116, 67, 101, 105, 108, 105, 110, 103>>, chars |-> <<8968>>, bare |-> FALSE],  \* LeftCeiling
       [name |-> <<76, 101, 102, 116, 68, 111, 117, 98, 108, 101, 66, 114, 97, 99, 107, 101, 116>>, chars |-> <<10214>>, bare |-> FALSE],  \* LeftDoubleBracket
       [name |-> <<76, 101, 102, 116, 68, 111, 119, 110, 84, 101, 101, 86, 101, 99, 116, 111, 114>>, chars |-> <<10593>>, bare |-> FALSE],  \* LeftDownTeeVector
       [name |-> <<76, 101, 102, 116, 68, 111, 119, 110, 86, 101, 99, 116, 111, 114>>, chars |-> <<8643>>, bare |-> FALSE],  \* LeftDownVector
       [name |-> <<76, 101, 102, 116, 68, 111, 119, 110, 86, 101, 99, 116, 111, 114, 66, 97, 114>>, chars |-> <<10585>>, bare |-> FALSE],  \* LeftDownVectorBar
       [name |-> <<76, 101, 102, 116, 70, 108, 111, 111, 114>>, chars |-> <<8970>>, bare |-> FALSE],  \* LeftFloor
       [name |-> <<76, 101, 102, 116, 82, 105, 103, 104, 116, 65, 114, 114, 111, 119>>, chars |-> <<8596>>, bare |-> FALSE],  \* LeftRightArrow
       [name |-> <<76, 101, 102, 116, 82, 105, 103, 104, 116, 86, 101, 99, 116, 111, 114>>, chars |-> <<10574>>, bare |-> FALSE],  \* LeftRightVector
       [name |-> <<76, 101, 102, 116, 84, 101, 101>>, chars |-> <<8867>>, bare |-> FALSE],  \* LeftTee
       [name |-> <<76, 101, 102, 116, 84, 101, 101, 65, 114, 114, 111, 119>>, chars |-> <<8612>>, bare |-> FALSE],  \* LeftTeeArrow
       [name |-> <<76, 101, 102, 116, 84, 101, 101, 86, 101, 99, 116, 111, 114>>, chars |-> <<10586>>, bare |-> FALSE],  \* LeftTeeVector
       [name |-> <<76, 101, 102, 116, 84, 114, 105, 97, 110, 103, 108, 101>>, chars |-> <<8882>>, bare |-> FALSE],  \* LeftTriangle
       [name |-> <<76, 101, 102, 116, 84, 114, 105, 97, 110, 103, 108, 101, 66, 97, 114>>, chars |-> <<10703>>, bare |-> FALSE],  \* LeftTriangleBar
       [name |-> <<76, 101, 102, 116, 84, 114, 105, 97, 110, 103, 108, 101, 69, 113, 117, 97, 108>>, chars |-> <<8884>>, bare |-> FALSE],  \* LeftTriangleEqual
       [name |-> <<76, 101, 102, 116, 85, 112, 68, 111, 119, 110, 86, 101, 99, 116, 111, 114>>, chars |-> <<10577>>, bare |-> FALSE],  \* LeftUpDownVector
       [name |-> <<76, 101, 102, 116, 85, 112, 84, 101, 101, 86, 101, 99, 116, 111, 114>>, chars |-> <<10592>>, bare |-> FALSE],  \* LeftUpTeeVector
       [name |-> <<76, 101, 102, 116, 85, 112, 86, 101, 99, 116, 111, 114>>, chars |-> <<8639>>, bare |-> FALSE],  \* LeftUpVector
       [name |-> <<76, 101, 102, 116, 85, 112, 86, 101, 99, 116, 111, 114, 66, 97, 114>>, chars |-> <<10584>>, bare |-> FALSE],  \* LeftUpVectorBar
       [name |-> <<76, 101, 102, 116, 86, 101, 99, 116, 111, 114>>, chars |-> <<8636>>, bare |-> FALSE],  \* LeftVector
       [name |-> <<76, 101, 102, 116, 86, 101, 99, 116, 111, 114, 66, 97, 114>>, chars |-> <<10578>>, bare |-> FALSE],  \* LeftVectorBar
       [name |-> <<76, 101, 102, 116, 97, 114, 114, 111, 119>>, chars |-> <<8656>>, bare |-> FALSE],  \* Leftarrow
       [name |-> <<76, 101, 102, 116, 114, 105, 103, 104, 116, 97, 114, 114, 111, 119>>, chars |-> <<8660>>, bare |-> FALSE],  \* Leftrightarrow
       [name |-> <<76, 101, 115, 115, 69, 113, 117, 97, 108, 71, 114, 101, 97, 116, 101, 114>>, chars |-> <<8922>>, bare |-> FALSE],  \* LessEqualGreater
       [name |-> <<76, 101, 115, 115, 70, 117, 108, 108, 69, 113, 117, 97, 108>>, chars |-> <<8806>>, bare |-> FALSE],  \* LessFullEqual
       [name |-> <<76, 101, 115, 115, 71, 114, 101, 97, 116, 101, 114>>, chars |-> <<8822>>, bare |-> FALSE],  \* LessGreater
       [name |-> <<76, 101, 115, 115, 76, 101, 115, 115>>, chars |-> <<10913>>, bare |-> FALSE],  \* LessLess
       [name |-> <<76, 101, 115, 115, 83, 108, 97, 110, 116, 69, 113, 117, 97, 108>>, chars |-> <<10877>>, bare |-> FALSE],  \* LessSlantEqual
       [name |-> <<76, 101, 115, 115, 84, 105, 108, 100, 101>>, chars |-> <<8818>>, bare |-> FALSE],  \* LessTilde
       [name |-> <<76, 102, 114>>, chars |-> <<120079>>, bare |-> FALSE],  \* Lfr
       [name |-> <<76, 108>>, chars |-> <<8920>>, bare |-> FALSE],  \* Ll
       [name |-> <<76, 108, 101, 102, 116, 97, 114, 114, 111, 119>>, chars |-> <<8666>>, bare |-> FALSE],  \* Lleftarrow
       [name |-> <<76, 109, 105, 100, 111, 116>>, chars |-> <<319>>, bare |-> FALSE],  \* Lmidot
       [name |-> <<76, 111, 110, 103, 76, 101, 102, 116, 65, 114, 114, 111, 119>>, chars |-> <<10229>>, bare |-> FALSE],  \* LongLeftArrow
       [name |-> <<76, 111, 110, 103, 76, 101, 102, 116, 82, 105, 103, 104, 116, 65, 114, 114, 111, 119>>, chars |-> <<10231>>, bare |-> FALSE],  \* LongLeftRightArrow
       [name |-> <<76, 111, 110, 103, 82, 105, 103, 104, 116, 65, 114, 114, 111, 119>>, chars |-> <<10230>>, bare |-> FALSE],  \* LongRightArrow
       [name |-> <<76, 111, 110, 103, 108, 101, 102, 116, 97, 114, 114, 111, 119>>, chars |-> <<10232>>, bare |-> FALSE],  \* Longleftarrow
       [name |-> <<76, 111, 110, 103, 108, 101, 102, 116, 114, 105, 103, 104, 116, 97, 114, 114, 111, 119>>, chars |-> <<10234>>, bare |-> FALSE],  \* Longleftrightarrow
       [name |-> <<76, 111, 110, 103, 114, 105, 103, 104, 116, 97, 114, 114, 111, 119>>, chars |-> <<10233>>, bare |-> FALSE],  \* Longrightarrow
       [name |-> <<76, 111, 112, 102>>, chars |-> <<120131>>, bare |-> FALSE],  \* Lopf
       [name |-> <<76, 111, 119, 101, 114, 76, 101, 102, 116, 65, 114, 114, 111, 119>>, chars |-> <<8601>>, bare |-> FALSE],  \* LowerLeftArrow
       [name |-> <<76, 111, 119, 101, 114, 82, 105, 103, 104, 116, 65, 114, 114, 111, 119>>, chars |-> <<8600>>, bare |-> FALSE],  \* LowerRightArrow
       [name |-> <<76, 115, 99, 114>>, chars |-> <<8466>>, bare |-> FALSE],  \* Lscr
       [name |-> <<76, 115, 104>>, chars |-> <<8624>>, bare |-> FALSE],  \* Lsh
       [name |-> <<76, 115, 116, 114, 111, 107>>, chars |-> <<321>>, bare |-> FALSE],  \* Lstrok
       [name |-> <<76, 116>>, chars |-> <<8810>>, bare |-> FALSE],  \* Lt
       [name |-> <<77, 97, 112>>, chars |-> <<10501>>, bare |-> FALSE],  \* Map
       [name |-> <<77, 99, 121>>, chars |-> <<1052>>, bare |-> FALSE],  \* Mcy
       [name |-> <<77, 101, 100, 105, 117, 109, 83, 112, 97, 99, 101>>, chars |-> <<8287>>, bare |-> FALSE],  \* MediumSpace
       [name |-> <<77, 101, 108, 108, 105, 110, 116, 114, 102>>, chars |-> <<8499>>, bare |-> FALSE],  \* Mellintrf
       [name |-> <<77, 102, 114>>, chars |-> <<120080>>, bare |-> FALSE],  \* Mfr
       [name |-> <<77, 105, 110, 117, 115, 80, 108, 117, 115>>, chars |-> <<8723>>, bare |-> FALSE],  \* MinusPlus
       [name |-> <<77, 111, 112, 102>>, chars |-> <<120132>>, bare |-> FALSE],  \* Mopf
       [name |-> <<77, 115, 99, 114>>, chars |-> <<8499>>, bare |-> FALSE],  \* Mscr
       [name |-> <<77, 117>>, chars |-> <<924>>, bare |-> FALSE],  \* Mu
       [name |-> <<78, 74, 99, 121>>, chars |-> <<1034>>, bare |-> FALSE],  \* NJcy
       [name |-> <<78, 97, 99, 117, 116, 101>>, chars |-> <<323>>, bare |-> FALSE],  \* Nacute
       [name |-> <<78, 99, 97, 114, 111, 110>>, chars |-> <<327>>, bare |-> FALSE],  \* Ncaron
       [name |-> <<78, 99, 101, 100, 105, 108>>, chars |-> <<325>>, bare |-> FALSE],  \* Ncedil
       [name |-> <<78, 99, 121>>, chars |-> <<1053>>, bare |-> FALSE],  \* Ncy
       [name |-> <<78, 101, 103, 97, 116, 105, 118, 101, 77, 101, 100, 105, 117, 109, 83, 112, 97, 99, 101>>, chars |-> <<8203>>, bare |-> FALSE],  \* NegativeMediumSpace
       [name |-> <<78, 101, 103, 97, 116, 105, 118, 101, 84, 104, 105, 99, 107, 83, 112, 97, 99, 101>>, chars |-> <<8203>>, bare |-> FALSE],  \* NegativeThickSpace
       [name |-> <<78, 101, 103, 97, 116, 105, 118, 101, 84, 104, 105, 110, 83, 112, 97, 99, 101>>, chars |-> <<8203>>, bare |-> FALSE],  \* NegativeThinSpace
       [name |-> <<78, 101, 103, 97, 116, 105, 118, 101, 86, 101, 114, 121, 84, 104, 105, 110, 83, 112, 97, 99, 101>>, chars |-> <<8203>>, bare |-> FALSE],  \* NegativeVeryThinSpace
       [name |-> <<78, 101, 115, 116, 101, 100, 71, 114, 101, 97, 116, 101, 114, 71, 114, 101, 97, 116, 101, 114>>, chars |-> <<8811>>, bare |-> FALSE],  \* NestedGreaterGreater
       [name |-> <<78, 101, 115, 116, 101, 100, 76, 101, 115, 115, 76, 101, 115, 115>>, chars |-> <<8810>>, bare |-> FALSE],  \* NestedLessLess
       [name |-> <<78, 101, 119, 76, 105, 110, 101>>, chars |-> <<10>>, bare |-> FALSE],  \* NewLine
       [name |-> <<78, 102, 114>>, chars |-> <<120081>>, bare |-> FALSE],  \* Nfr
       [name |-> <<78, 111, 66, 114, 101, 97, 107>>, chars |-> <<8288>>, bare |-> FALSE],  \* NoBreak
       [name |-> <<78, 111, 110, 66, 114, 101, 97, 107, 105, 110, 103, 83, 112, 97, 99, 101>>, chars |-> <<160>>, bare |-> FALSE],  \* NonBreakingSpace
       [name |-> <<78, 111, 112, 102>>, chars |-> <<8469>>, bare |-> FALSE],  \* Nopf
       [name |-> <<78, 111, 116>>, chars |-> <<10988>>, bare |-> FALSE],  \* Not
       [name |-> <<78, 111, 116, 67, 111, 110, 103, 114, 117, 101, 110, 116>>, chars |-> <<8802>>, bare |-> FALSE],  \* NotCongruent
       [name |-> <<78, 111, 116, 67, 117, 112, 67, 97, 112>>, chars |-> <<8813>>, bare |-> FALSE],  \* NotCupCap
       [name |-> <<78, 111, 116, 68, 111, 117, 98, 108, 101, 86, 101, 114, 116, 105, 99, 97, 108, 66, 97, 114>>, chars |-> <<8742>>, bare |-> FALSE],  \* NotDoubleVerticalBar
       [name |-> <<78, 111, 116, 69, 108, 101, 109, 101, 110, 116>>, chars |-> <<8713>>, bare |-> FALSE],  \* NotElement
       [name |-> <<78, 111, 116, 69, 113, 117, 97, 108>>, chars |-> <<8800>>, bare |-> FALSE],  \* NotEqual
       [name |-> <<78, 111, 116, 69, 113, 117, 97, 108, 84, 105, 108, 100, 101>>, chars |-> <<8770, 824>>, bare |-> FALSE],  \* NotEqualTilde
       [name |-> <<78, 111, 116, 69, 120, 105, 115, 116, 115>>, chars |-> <<8708>>, bare |-> FALSE],  \* NotExists
       [name |-> <<78, 111, 116, 71, 114, 101, 97, 116, 101, 114>>, chars |-> <<8815>>, bare |-> FALSE],  \* NotGreater
       [name |-> <<78, 111, 116, 71, 114, 101, 97, 116, 101, 114, 69, 113, 117, 97, 108>>, chars |-> <<8817>>, bare |-> FALSE],  \* NotGreaterEqual
       [name |-> <<78, 111, 116, 71, 114, 101, 97, 116, 101, 114, 70, 117, 108, 108, 69, 113, 117, 97, 108>>, chars |-> <<8807, 824>>, bare |-> FALSE],  \* NotGreaterFullEqual
       [name |-> <<78, 111, 116, 71, 114, 101, 97, 116, 101, 114, 71, 114, 101, 97, 116, 101, 114>>, chars |-> <<8811, 824>>, bare |-> FALSE],  \* NotGreaterGreater
       [name |-> <<78, 111, 116, 71, 114, 101, 97, 116, 101, 114, 76, 101, 115, 115>>, chars |-> <<8825>>, bare |-> FALSE],  \* NotGreaterLess
       [name |-> <<78, 111, 116, 71, 114, 101, 97, 116, 101, 114, 83, 108, 97, 110, 116, 69, 113, 117, 97, 108>>, chars |-> <<10878, 824>>, bare |-> FALSE],  \* NotGreaterSlantEqual
       [name |-> <<78, 111, 116, 71, 114, 101, 97, 116, 101, 114, 84, 105, 108, 100, 101>>, chars |-> <<8821>>, bare |-> FALSE],  \* NotGreaterTilde
       [name |-> <<78, 111, 116, 72, 117, 109, 112, 68, 111, 119, 110, 72, 117, 109, 112>>, chars |-> <<8782, 824>>, bare |-> FALSE],  \* NotHumpDownHump
       [name |-> <<78, 111, 116, 72, 117, 109, 112, 69, 113, 117, 97, 108>>, chars |-> <<8783, 824>>, bare |-> FALSE],  \* NotHumpEqual
       [name |-> <<78, 111, 116, 76, 101, 102, 116, 84, 114, 105, 97, 110, 103, 108, 101>>, chars |-> <<8938>>, bare |-> FALSE],  \* NotLeftTriangle
       [name |-> <<78, 111, 116, 76, 101, 102, 116, 84, 114, 105, 97, 110, 103, 108, 101, 66, 97, 114>>, chars |-> <<10703, 824>>, bare |-> FALSE],  \* NotLeftTriangleBar
       [name |-> <<78, 111, 116, 76, 101, 102, 116, 84, 114, 105, 97, 110, 103, 108, 101, 69, 113, 117, 97, 108>>, chars |-> <<8940>>, bare |-> FALSE],  \* NotLeftTriangleEqual
       [name |-> <<78, 111, 116, 76, 101, 115, 115>>, chars |-> <<8814>>, bare |-> FALSE],  \* NotLess
       [name |-> <<78, 111, 116, 76, 101, 115, 115, 69, 113, 117, 97, 108>>, chars |-> <<8816>>, bare |-> FALSE],  \* NotLessEqual
       [name |-> <<78, 111, 116, 76, 101, 115, 115, 71, 114, 101, 97, 116, 101, 114>>, chars |-> <<8824>>, bare |-> FALSE],  \* NotLessGreater
       [name |-> <<78, 111, 116, 76, 101, 115, 115, 76, 101, 115, 115>>, chars |-> <<8810, 824>>, bare |-> FALSE],  \* NotLessLess
       [name |-> <<78, 111, 116, 76, 101, 115, 115, 83, 108, 97, 110, 116, 69, 113, 117, 97, 108>>, chars |-> <<10877, 824>>, bare |-> FALSE],  \* NotLessSlantEqual
       [name |-> <<78, 111, 116, 76, 101, 115, 115, 84, 105, 108, 100, 101>>, chars |-> <<8820>>, bare |-> FALSE],  \* NotLessTilde
       [name |-> <<78, 111, 116, 78, 101, 115, 116, 101, 100, 71, 114, 101, 97, 116, 101, 114, 71, 114, 101, 97, 116, 101, 114>>, chars |-> <<10914, 824>>, bare |-> FALSE],  \* NotNestedGreaterGreater
       [name |-> <<78, 111, 116, 78, 101, 115, 116, 101, 100, 76, 101, 115, 115, 76, 101, 115, 115>>, chars |-> <<10913, 824>>, bare |-> FALSE],  \* NotNestedLessLess
       [name |-> <<78, 111, 116, 80, 114, 101, 99, 101, 100, 101, 115>>, chars |-> <<8832>>, bare |-> FALSE],  \* NotPrecedes
       [name |-> <<78, 111, 116, 80, 114, 101, 99, 101, 100, 101, 115, 69, 113, 117, 97, 108>>, chars |-> <<10927, 824>>, bare |-> FALSE],  \* NotPrecedesEqual
       [name |-> <<78, 111, 116, 80, 114, 101, 99, 101, 100, 101, 115, 83, 108, 97, 110, 116, 69, 113, 117, 97, 108>>, chars |-> <<8928>>, bare |-> FALSE],  \* NotPrecedesSlantEqual
       [name |-> <<78, 111, 116, 82, 101, 118, 101, 114, 115, 101, 69, 108, 101, 109, 101, 110, 116>>, chars |-> <<8716>>, bare |-> FALSE],  \* NotReverseElement
       [name |-> <<78, 111, 116, 82, 105, 103, 104, 116, 84, 114, 105, 97, 110, 103, 108, 101>>, chars |-> <<8939>>, bare |-> FALSE],  \* NotRightTriangle
       [name |-> <<78, 111, 116, 82, 105, 103, 104, 116, 84, 114, 105, 97, 110, 103, 108, 101, 66, 97, 114>>, chars |-> <<10704, 824>>, bare |-> FALSE],  \* NotRightTriangleBar
       [name |-> <<78, 111, 116, 82, 105, 103, 104, 116, 84, 114, 105, 97, 110, 103, 108, 101, 69, 113, 117, 97, 108>>, chars |-> <<8941>>, bare |-> FALSE],  \* NotRightTriangleEqual
       [name |-> <<78, 111, 116, 83, 113, 117, 97, 114, 101, 83, 117, 98, 115, 101, 116>>, chars |-> <<8847, 824>>, bare |-> FALSE],  \* NotSquareSubset
       [name |-> <<78, 111, 116, 83, 113, 117, 97, 114, 101, 83, 117, 98, 115, 101, 116, 69, 113, 117, 97, 108>>, chars |-> <<8930>>, bare |-> FALSE],  \* NotSquareSubsetEqual
       [name |-> <<78, 111, 116, 83, 113, 117, 97, 114, 101, 83, 117, 112, 101, 114, 115, 101, 116>>, chars |-> <<8848, 824>>, bare |-> FALSE],  \* NotSquareSuperset
       [name |-> <<78, 111, 116, 83, 113, 117, 97, 114, 101, 83, 117, 112, 101, 114, 115, 101, 116, 69, 113, 117, 97, 108>>, chars |-> <<8931>>, bare |-> FALSE],  \* NotSquareSupersetEqual
       [name |-> <<78, 111, 116, 83, 117, 98, 115, 101, 116>>, chars |-> <<8834, 8402>>, bare |-> FALSE],  \* NotSubset
       [name |-> <<78, 111, 116, 83, 117, 98, 115, 101, 116, 69, 113, 117, 97, 108>>, chars |-> <<8840>>, bare |-> FALSE],  \* NotSubsetEqual
       [name |-> <<78, 111, 116, 83, 117, 99, 99, 101, 101, 100, 115>>, chars |-> <<8833>>, bare |-> FALSE],  \* NotSucceeds
       [name |-> <<78, 111, 116, 83, 117, 99, 99, 101, 101, 100, 115, 69, 113, 117, 97, 108>>, chars |-> <<10928, 824>>, bare |-> FALSE],  \* NotSucceedsEqual
       [name |-> <<78, 111, 116, 83, 117, 99, 99, 101, 101, 100, 115, 83, 108, 97, 110, 116, 69, 113, 117, 97, 108>>, chars |-> <<8929>>, bare |-> FALSE],  \* NotSucceedsSlantEqual
       [name |-> <<78, 111, 116, 83, 117, 99, 99, 101, 101, 100, 115, 84, 105, 108, 100, 101>>, chars |-> <<8831, 824>>, bare |-> FALSE],  \* NotSucceedsTilde
       [name |-> <<78, 111, 116, 83, 117, 112, 101, 114, 115, 101, 116>>, chars |-> <<8835, 8402>>, bare |-> FALSE],  \* NotSuperset
       [name |-> <<78, 111, 116, 83, 117, 112, 101, 114, 115, 101, 116, 69, 113, 117, 97, 108>>, chars |-> <<8841>>, bare |-> FALSE],  \* NotSupersetEqual
       [name |-> <<78, 111, 116, 84, 105, 108, 100, 101>>, chars |-> <<8769>>, bare |-> FALSE],  \* NotTilde
       [name |-> <<78, 111, 116, 84, 105, 108, 100, 101, 69, 113, 117, 97, 108>>, chars |-> <<8772>>, bare |-> FALSE],  \* NotTildeEqual
       [name |-> <<78, 111, 116, 84, 105, 108, 100, 101, 70, 117, 108, 108, 69, 113, 117, 97, 108>>, chars |-> <<8775>>, bare |-> FALSE],  \* NotTildeFullEqual
       [name |-> <<78, 111, 116, 84, 105, 108, 100, 101, 84, 105, 108, 100, 101>>, chars |-> <<8777>>, bare |-> FALSE],  \* NotTildeTilde
       [name |-> <<78, 111, 116, 86, 101, 114, 116, 105, 99, 97, 108, 66, 97, 114>>, chars |-> <<8740>>, bare |-> FALSE],  \* NotVerticalBar
       [name |-> <<78, 115, 99, 114>>, chars |-> <<119977>>, bare |-> FALSE],  \* Nscr
       [name |-> <<78, 116, 105, 108, 100, 101>>, chars |-> <<209>>, bare |-> TRUE],  \* Ntilde
       [name |-> <<78, 117>>, chars |-> <<925>>, bare |-> FALSE],  \* Nu
       [name |-> <<79, 69, 108, 105, 103>>, chars |-> <<338>>, bare |-> FALSE],  \* OElig
       [name |-> <<79, 97, 99, 117, 116, 101>>, chars |-> <<211>>, bare |-> TRUE],  \* Oacute
       [name |-> <<79, 99, 105, 114, 99>>, chars |-> <<212>>, bare |-> TRUE],  \* Ocirc
       [name |-> <<79, 99, 121>>, chars |-> <<1054>>, bare |-> FALSE],  \* Ocy
       [name |-> <<79, 100, 98, 108, 97, 99>>, chars |-> <<336>>, bare |-> FALSE],  \* Odblac
       [name |-> <<79, 102, 114>>, chars |-> <<120082>>, bare |-> FALSE],  \* Ofr
       [name |-> <<79, 103, 114, 97, 118, 101>>, chars |-> <<210>>, bare |-> TRUE],  \* Ograve
       [name |-> <<79, 109, 97, 99, 114>>, chars |-> <<332>>, bare |-> FALSE],  \* Omacr
       [name |-> <<79, 109, 101, 103, 97>>, chars |-> <<937>>, bare |-> FALSE],  \* Omega
       [name |-> <<79, 109, 105, 99, 114, 111, 110>>, chars |-> <<927>>, bare |-> FALSE],  \* Omicron
       [name |-> <<79, 111, 112, 102>>, chars |-> <<120134>>, bare |-> FALSE],  \* Oopf
       [name |-> <<79, 112, 101, 110, 67, 117, 114, 108, 121, 68, 111, 117, 98, 108, 101, 81, 117, 111, 116, 101>>, chars |-> <<8220>>, bare |-> FALSE],  \* OpenCurlyDoubleQuote
       [name |-> <<79, 112, 101, 110, 67, 117, 114, 108, 121, 81, 117, 111, 116, 101>>, chars |-> <<8216>>, bare |-> FALSE],  \* OpenCurlyQuote
       [name |-> <<79, 114>>, chars |-> <<10836>>, bare |-> FALSE],  \* Or
       [name |-> <<79, 115, 99, 114>>, chars |-> <<119978>>, bare |-> FALSE],  \* Oscr
       [name |-> <<79, 115, 108, 97, 115, 104>>, chars |-> <<216>>, bare |-> TRUE],  \* Oslash
       [name |-> <<79, 116, 105, 108, 100, 101>>, chars |-> <<213>>, bare |-> TRUE],  \* Otilde
       [name |-> <<79, 116, 105, 109, 101, 115>>, chars |-> <<10807>>, bare |-> FALSE],  \* Otimes
       [name |-> <<79, 117, 109, 108>>, chars |-> <<214>>, bare |-> TRUE],  \* Ouml
       [name |-> <<79, 118, 101, 114, 66, 97, 114>>, chars |-> <<8254>>, bare |-> FALSE],  \* OverBar
       [name |-> <<79, 118, 101, 114, 66, 114, 97, 99, 101>>, chars |-> <<9182>>, bare |-> FALSE],  \* OverBrace
       [name |-> <<79, 118, 101, 114, 66, 114, 97, 99, 107, 101, 116>>, chars |-> <<9140>>, bare |-> FALSE],  \* OverBracket
       [name |-> <<79, 118, 101, 114, 80, 97, 114, 101, 110, 116, 104, 101, 115, 105, 115>>, chars |-> <<9180>>, bare |-> FALSE],  \* OverParenthesis
       [name |-> <<80, 97, 114, 116, 105, 97, 108, 68>>, chars |-> <<8706>>, bare |-> FALSE],  \* PartialD
       [name |-> <<80, 99, 121>>, chars |-> <<1055>>, bare |-> FALSE],  \* Pcy
       [name |-> <<80, 102, 114>>, chars |-> <<120083>>, bare |-> FALSE],  \* Pfr
       [name |-> <<80, 104, 105>>, chars |-> <<934>>, bare |-> FALSE],  \* Phi
       [name |-> <<80, 105>>, chars |-> <<928>>, bare |-> FALSE],  \* Pi
       [name |-> <<80, 108, 117, 115, 77, 105, 110, 117, 115>>, chars |-> <<177>>, bare |-> FALSE],  \* PlusMinus
       [name |-> <<80, 111, 105, 110, 99, 97, 114, 101, 112, 108, 97, 110, 101>>, chars |-> <<8460>>, bare |-> FALSE],  \* Poincareplane
       [name |-> <<80, 111, 112, 102>>, chars |-> <<8473>>, bare |-> FALSE],  \* Popf
       [name |-> <<80, 114>>, chars |-> <<10939>>, bare |-> FALSE],  \* Pr
       [name |-> <<80, 114, 101, 99, 101, 100, 101, 115>>, chars |-> <<8826>>, bare |-> FALSE],  \* Precedes
       [name |-> <<80, 114, 101, 99, 101, 100, 101, 115, 69, 113, 117, 97, 108>>, chars |-> <<10927>>, bare |-> FALSE],  \* PrecedesEqual
       [name |-> <<80, 114, 101, 99, 101, 100, 101, 115, 83, 108, 97, 110, 116, 69, 113, 117, 97, 108>>, chars |-> <<8828>>, bare |-> FALSE],  \* PrecedesSlantEqual
       [name |-> <<80, 114, 101, 99, 101, 100, 101, 115, 84, 105, 108, 100, 101>>, chars |-> <<8830>>, bare |-> FALSE],  \* PrecedesTilde
       [name |-> <<80, 114, 105, 109, 101>>, chars |-> <<8243>>, bare |-> FALSE],  \* Prime
       [name |-> <<80, 114, 111, 100, 117, 99, 116>>, chars |-> <<8719>>, bare |-> FALSE],  \* Product
       [name |-> <<80, 114, 111, 112, 111, 114, 116, 105, 111, 110>>, chars |-> <<8759>>, bare |-> FALSE],  \* Proportion
       [name |-> <<80, 114, 111, 112, 111, 114, 116, 105, 111, 110, 97, 108>>, chars |-> <<8733>>, bare |-> FALSE],  \* Proportional
       [name |-> <<80, 115, 99, 114>>, chars |-> <<119979>>, bare |-> FALSE],  \* Pscr
       [name |-> <<80, 115, 105>>, chars |-> <<936>>, bare |-> FALSE],  \* Psi
       [name |-> <<81, 85, 79, 84>>, chars |-> <<34>>, bare |-> TRUE],  \* QUOT
       [name |-> <<81, 102, 114>>, chars |-> <<120084>>, bare |-> FALSE],  \* Qfr
       [name |-> <<81, 111, 112, 102>>, chars |-> <<8474>>, bare |-> FALSE],  \* Qopf
       [name |-> <<81, 115, 99, 114>>, chars |-> <<119980>>, bare |-> FALSE],  \* Qscr
       [name |-> <<82, 66, 97, 114, 114>>, chars |-> <<10512>>, bare |-> FALSE],  \* RBarr
       [name |-> <<82, 69, 71>>, chars |-> <<174>>, bare |-> TRUE],  \* REG
       [name |-> <<82, 97, 99, 117, 116, 101>>, chars |-> <<340>>, bare |-> FALSE],  \* Racute
       [name |-> <<82, 97, 110, 103>>, chars |-> <<10219>>, bare |-> FALSE],  \* Rang
       [name |-> <<82, 97, 114, 114>>, chars |-> <<8608>>, bare |-> FALSE],  \* Rarr
       [name |-> <<82, 97, 114, 114, 116, 108>>, chars |-> <<10518>>, bare |-> FALSE],  \* Rarrtl
       [name |-> <<82, 99, 97, 114, 111, 110>>, chars |-> <<344>>, bare |-> FALSE],  \* Rcaron
       [name |-> <<82, 99, 101, 100, 105, 108>>, chars |-> <<342>>, bare |-> FALSE],  \* Rcedil
       [name |-> <<82, 99, 121>>, chars |-> <<1056>>, bare |-> FALSE],  \* Rcy
       [name |-> <<82, 101>>, chars |-> <<8476>>, bare |-> FALSE],  \* Re
       [name |-> <<82, 101, 118, 101, 114, 115, 101, 69, 108, 101, 109, 101, 110, 116>>, chars |-> <<8715>>, bare |-> FALSE],  \* ReverseElement
       [name |-> <<82, 101, 118, 101, 114, 115, 101, 69, 113, 117, 105, 108, 105, 98, 114, 105, 117, 109>>, chars |-> <<8651>>, bare |-> FALSE],  \* ReverseEquilibrium
       [name |-> <<82, 101, 118, 101, 114, 115, 101, 85, 112, 69, 113, 117, 105, 108, 105, 98, 114, 105, 117, 109>>, chars |-> <<10607>>, bare |-> FALSE],  \* ReverseUpEquilibrium
       [name |-> <<82, 102, 114>>, chars |-> <<8476>>, bare |-> FALSE],  \* Rfr
       [name |-> <<82, 104, 111>>, chars |-> <<929>>, bare |-> FALSE],  \* Rho
       [name |-> <<82, 105, 103, 104, 116, 65, 110, 103, 108, 101, 66, 114, 97, 99, 107, 101, 116>>, chars |-> <<10217>>, bare |-> FALSE],  \* RightAngleBracket
       [name |-> <<82, 105, 103, 104, 116, 65, 114, 114, 111, 119>>, chars |-> <<8594>>, bare |-> FALSE],  \* RightArrow
       [name |-> <<82, 105, 103, 104, 116, 65, 114, 114, 111, 119, 66, 97, 114>>, chars |-> <<8677>>, bare |-> FALSE],  \* RightArrowBar
       [name |-> <<82, 105, 103, 104, 116, 65, 114, 114, 111, 119, 76, 101, 102, 116, 65, 114, 114, 111, 119>>, chars |-> <<8644>>, bare |-> FALSE],  \* RightArrowLeftArrow
       [name |-> <<82, 105, 103, 104, 116, 67, 101, 105, 108, 105, 110, 103>>, chars |-> <<8969>>, bare |-> FALSE],  \* RightCeiling
       [name |-> <<82, 105, 103, 104, 116, 68, 111, 117, 98, 108, 101, 66, 114, 97, 99, 107, 101, 116>>, chars |-> <<10215>>, bare |-> FALSE],  \* RightDoubleBracket
       [name |-> <<82, 105, 103, 104, 116, 68, 111, 119, 110, 84, 101, 101, 86, 101, 99, 116, 111, 114>>, chars |-> <<10589>>, bare |-> FALSE],  \* RightDownTeeVector
       [name |-> <<82, 105, 103, 104, 116, 68, 111, 119, 110, 86, 101, 99, 116, 111, 114>>, chars |-> <<8642>>, bare |-> FALSE],  \* RightDownVector
       [name |-> <<82, 105, 103, 104, 116, 68, 111, 119, 110, 86, 101, 99, 116, 111, 114, 66, 97, 114>>, chars |-> <<10581>>, bare |-> FALSE],  \* RightDownVectorBar
       [name |-> <<82, 105, 103, 104, 116, 70, 108, 111, 111, 114>>, chars |-> <<8971>>, bare |-> FALSE],  \* RightFloor
       [name |-> <<82, 105, 103, 104, 116, 84, 101, 101>>, chars |-> <<8866>>, bare |-> FALSE],  \* RightTee
       [name |-> <<82, 105, 103, 104, 116, 84, 101, 101, 65, 114, 114, 111, 119>>, chars |-> <<8614>>, bare |-> FALSE],  \* RightTeeArrow
       [name |-> <<82, 105, 103, 104, 116, 84, 101, 101, 86, 101, 99, 116, 111, 114>>, chars |-> <<10587>>, bare |-> FALSE],  \* RightTeeVector
       [name |-> <<82, 105, 103, 104, 116, 84, 114, 105, 97, 110, 103, 108, 101>>, chars |-> <<8883>>, bare |-> FALSE],  \* RightTriangle
       [name |-> <<82, 105, 103, 104, 116, 84, 114, 105, 97, 110, 103, 108, 101, 66, 97, 114>>, chars |-> <<10704>>, bare |-> FALSE],  \* RightTriangleBar
       [name |-> <<82, 105, 103, 104, 116, 84, 114, 105, 97, 110, 103, 108, 101, 69, 113, 117, 97, 108>>, chars |-> <<8885>>, bare |-> FALSE],  \* RightTriangleEqual
       [name |-> <<82, 105, 103, 104, 116, 85, 112, 68, 111, 119, 110, 86, 101, 99, 116, 111, 114>>, chars |-> <<10575>>, bare |-> FALSE],  \* RightUpDownVector
       [name |-> <<82, 105, 103, 104, 116, 85, 112, 84, 101, 101, 86, 101, 99, 116, 111, 114>>, chars |-> <<10588>>, bare |-> FALSE],  \* RightUpTeeVector
       [name |-> <<82, 105, 103, 104, 116, 85, 112, 86, 101, 99, 116, 111, 114>>, chars |-> <<8638>>, bare |-> FALSE],  \* RightUpVector
       [name |-> <<82, 105, 103, 104, 116, 85, 112, 86, 101, 99, 116, 111, 114, 66, 97, 114>>, chars |-> <<10580>>, bare |-> FALSE],  \* RightUpVectorBar
       [name |-> <<82, 105, 103, 104, 116, 86, 101, 99, 116, 111, 114>>, chars |-> <<8640>>, bare |-> FALSE],  \* RightVector
       [name |-> <<82, 105, 103, 104, 116, 86, 101, 99, 116, 111, 114, 66, 97, 114>>, chars |-> <<10579>>, bare |-> FALSE],  \* RightVectorBar
       [name |-> <<82, 105, 103, 104, 116, 97, 114, 114, 111, 119>>, chars |-> <<8658>>, bare |-> FALSE],  \* Rightarrow
       [name |-> <<82, 111, 112, 102>>, chars |-> <<8477>>, bare |-> FALSE],  \* Ropf
       [name |-> <<82, 111, 117, 110, 100, 73, 109, 112, 108, 105, 101, 115>>, chars |-> <<10608>>, bare |-> FALSE],  \* RoundImplies
       [name |-> <<82, 114, 105, 103, 104, 116, 97, 114, 114, 111, 119>>, chars |-> <<8667>>, bare |-> FALSE],  \* Rrightarrow
       [name |-> <<82, 115, 99, 114>>, chars |-> <<8475>>, bare |-> FALSE],  \* Rscr
       [name |-> <<82, 115, 104>>, chars |-> <<8625>>, bare |-> FALSE],  \* Rsh
       [name |-> <<82, 117, 108, 101, 68, 101, 108, 97, 121, 101, 100>>, chars |-> <<10740>>, bare |-> FALSE],  \* RuleDelayed
       [name |-> <<83, 72, 67, 72, 99, 121>>, chars |-> <<1065>>, bare |-> FALSE],  \* SHCHcy
       [name |-> <<83, 72, 99, 121>>, chars |-> <<1064>>, bare |-> FALSE],  \* SHcy
       [name |-> <<83, 79, 70, 84, 99, 121>>, chars |-> <<1068>>, bare |-> FALSE],  \* SOFTcy
       [name |-> <<83, 97, 99, 117, 116, 101>>, chars |-> <<346>>, bare |-> FALSE],  \* Sacute
       [name |-> <<83, 99>>, chars |-> <<10940>>, bare |-> FALSE],  \* Sc
       [name |-> <<83, 99, 97, 114, 111, 110>>, chars |-> <<352>>, bare |-> FALSE],  \* Scaron
       [name |-> <<83, 99, 101, 100, 105, 108>>, chars |-> <<350>>, bare |-> FALSE],  \* Scedil
       [name |-> <<83, 99, 105, 114, 99>>, chars |-> <<348>>, bare |-> FALSE],  \* Scirc
       [name |-> <<83, 99, 121>>, chars |-> <<1057>>, bare |-> FALSE],  \* Scy
       [name |-> <<83, 102, 114>>, chars |-> <<120086>>, bare |-> FALSE],  \* Sfr
       [name |-> <<83, 104, 111, 114, 116, 68, 111, 119, 110, 65, 114, 114, 111, 119>>, chars |-> <<8595>>, bare |-> FALSE],  \* ShortDownArrow
       [name |-> <<83, 104, 111, 114, 116, 76, 101, 102, 116, 65, 114, 114, 111, 119>>, chars |-> <<8592>>, bare |-> FALSE],  \* ShortLeftArrow
       [name |-> <<83, 104, 111, 114, 116, 82, 105, 103, 104, 116, 65, 114, 114, 111, 119>>, chars |-> <<8594>>, bare |-> FALSE],  \* ShortRightArrow
       [name |-> <<83, 104, 111, 114, 116, 85, 112, 65, 114, 114, 111, 119>>, chars |-> <<8593>>, bare |-> FALSE],  \* ShortUpArrow
       [name |-> <<83, 105, 103, 109, 97>>, chars |-> <<931>>, bare |-> FALSE],  \* Sigma
       [name |-> <<83, 109, 97, 108, 108, 67, 105, 114, 99, 108, 101>>, chars |-> <<8728>>, bare |-> FALSE],  \* SmallCircle
       [name |-> <<83, 111, 112, 102>>, chars |-> <<120138>>, bare |-> FALSE],  \* Sopf
       [name |-> <<83, 113, 114, 116>>, chars |-> <<8730>>, bare |-> FALSE],  \* Sqrt
       [name |-> <<83, 113, 117, 97, 114, 101>>, chars |-> <<9633>>, bare |-> FALSE],  \* Square
       [name |-> <<83, 113, 117, 97, 114, 101, 73, 110, 116, 101, 114, 115, 101, 99, 116, 105, 111, 110>>, chars |-> <<8851>>, bare |-> FALSE],  \* SquareIntersection
       [name |-> <<83, 113, 117, 97, 114, 101, 83, 117, 98, 115, 101, 116>>, chars |-> <<8847>>, bare |-> FALSE],  \* SquareSubset
       [name |-> <<83, 113, 117, 97, 114, 101, 83, 117, 98, 115, 101, 116, 69, 113, 117, 97, 108>>, chars |-> <<8849>>, bare |-> FALSE],  \* SquareSubsetEqual
       [name |-> <<83, 113, 117, 97, 114, 101, 83, 117, 112, 101, 114, 115, 101, 116>>, chars |-> <<8848>>, bare |-> FALSE],  \* SquareSuperset
       [name |-> <<83, 113, 117, 97, 114, 101, 83, 117, 112, 101, 114, 115, 101, 116, 69, 113, 117, 97, 108>>, chars |-> <<8850>>, bare |-> FALSE],  \* SquareSupersetEqual
       [name |-> <<83, 113, 117, 97, 114, 101, 85, 110, 105, 111, 110>>, chars |-> <<8852>>, bare |-> FALSE],  \* SquareUnion
       [name |-> <<83, 115, 99, 114>>, chars |-> <<119982>>, bare |-> FALSE],  \* Sscr
       [name |-> <<83, 116, 97, 114>>, chars |-> <<8902>>, bare |-> FALSE],  \* Star
       [name |-> <<83, 117, 98>>, chars |-> <<8912>>, bare |-> FALSE],  \* Sub
       [name |-> <<83, 117, 98, 115, 101, 116>>, chars |-> <<8912>>, bare |-> FALSE],  \* Subset
       [name |-> <<83, 117, 98, 115, 101, 116, 69, 113, 117, 97, 108>>, chars |-> <<8838>>, bare |-> FALSE],  \* SubsetEqual
       [name |-> <<83, 117, 99, 99, 101, 101, 100, 115>>, chars |-> <<8827>>, bare |-> FALSE],  \* Succeeds
       [name |-> <<83, 117, 99, 99, 101, 101, 100, 115, 69, 113, 117, 97, 108>>, chars |-> <<10928>>, bare |-> FALSE],  \* SucceedsEqual
       [name |-> <<83, 117, 99, 99, 101, 101, 100, 115, 83, 108, 97, 110, 116, 69, 113, 117, 97, 108>>, chars |-> <<8829>>, bare |-> FALSE],  \* SucceedsSlantEqual
       [name |-> <<83, 117, 99, 99, 101, 101, 100, 115, 84, 105, 108, 100, 101>>, chars |-> <<8831>>, bare |-> FALSE],  \* SucceedsTilde
       [name |-> <<83, 117, 99, 104, 84, 104, 97, 116>>, chars |-> <<8715>>, bare |-> FALSE],  \* SuchThat
       [name |-> <<83, 117, 109>>, chars |-> <<8721>>, bare |-> FALSE],  \* Sum
       [name |-> <<83, 117, 112>>, chars |-> <<8913>>, bare |-> FALSE],  \* Sup
       [name |-> <<83, 117, 112, 101, 114, 115, 101, 116>>, chars |-> <<8835>>, bare |-> FALSE],  \* Superset
       [name |-> <<83, 117, 112, 101, 114, 115, 101, 116, 69, 113, 117, 97, 108>>, chars |-> <<8839>>, bare |-> FALSE],  \* SupersetEqual
       [name |-> <<83, 117, 112, 115, 101, 116>>, chars |-> <<8913>>, bare |-> FALSE],  \* Supset
       [name |-> <<84, 72, 79, 82, 78>>, chars |-> <<222>>, bare |-> TRUE],  \* THORN
       [name |-> <<84, 82, 65, 68, 69>>, chars |-> <<8482>>, bare |-> FALSE],  \* TRADE
       [name |-> <<84, 83, 72, 99, 121>>, chars |-> <<1035>>, bare |-> FALSE],  \* TSHcy
       [name |-> <<84, 83, 99, 121>>, chars |-> <<1062>>, bare |-> FALSE],  \* TScy
       [name |-> <<84, 97, 98>>, chars |-> <<9>>, bare |-> FALSE],  \* Tab
       [name |-> <<84, 97, 117>>, chars |-> <<932>>, bare |-> FALSE],  \* Tau
       [name |-> <<84, 99, 97, 114, 111, 110>>, chars |-> <<356>>, bare |-> FALSE],  \* Tcaron
       [name |-> <<84, 99, 101, 100, 105, 108>>, chars |-> <<354>>, bare |-> FALSE],  \* Tcedil
       [name |-> <<84, 99, 121>>, chars |-> <<1058>>, bare |-> FALSE],  \* Tcy
       [name |-> <<84, 102, 114>>, chars |-> <<120087>>, bare |-> FALSE],  \* Tfr
       [name |-> <<84, 104, 101, 114, 101, 102, 111, 114, 101>>, chars |-> <<8756>>, bare |-> FALSE],  \* Therefore
       [name |-> <<84, 104, 101, 116, 97>>, chars |-> <<920>>, bare |-> FALSE],  \* Theta
       [name |-> <<84, 104, 105, 99, 107, 83, 112, 97, 99, 101>>, chars |-> <<8287, 8202>>, bare |-> FALSE],  \* ThickSpace
       [name |-> <<84, 104, 105, 110, 83, 112, 97, 99, 101>>, chars |-> <<8201>>, bare |-> FALSE],  \* ThinSpace
       [name |-> <<84, 105, 108, 100, 101>>, chars |-> <<8764>>, bare |-> FALSE],  \* Tilde
       [name |-> <<84, 105, 108, 100, 101, 69, 113, 117, 97, 108>>, chars |-> <<8771>>, bare |-> FALSE],  \* TildeEqual
       [name |-> <<84, 105, 108, 100, 101, 70, 117, 108, 108, 69, 113, 117, 97, 108>>, chars |-> <<8773>>, bare |-> FALSE],  \* TildeFullEqual
       [name |-> <<84, 105, 108, 100, 101, 84, 105, 108, 100, 101>>, chars |-> <<8776>>, bare |-> FALSE],  \* TildeTilde
       [name |-> <<84, 111, 112, 102>>, chars |-> <<120139>>, bare |-> FALSE],  \* Topf
       [name |-> <<84, 114, 105, 112, 108, 101, 68, 111, 116>>, chars |-> <<8411>>, bare |-> FALSE],  \* TripleDot
       [name |-> <<84, 115, 99, 114>>, chars |-> <<119983>>, bare |-> FALSE],  \* Tscr
       [name |-> <<84, 115, 116, 114, 111, 107>>, chars |-> <<358>>, bare |-> FALSE],  \* Tstrok
       [name |-> <<85, 97, 99, 117, 116, 101>>, chars |-> <<218>>, bare |-> TRUE],  \* Uacute
       [name |-> <<85, 97, 114, 114>>, chars |-> <<8607>>, bare |-> FALSE],  \* Uarr
       [name |-> <<85, 97, 114, 114, 111, 99, 105, 114>>, chars |-> <<10569>>, bare |-> FALSE],  \* Uarrocir
       [name |-> <<85, 98, 114, 99, 121>>, chars |-> <<1038>>, bare |-> FALSE],  \* Ubrcy
       [name |-> <<85, 98, 114, 101, 118, 101>>, chars |-> <<364>>, bare |-> FALSE],  \* Ubreve
       [name |-> <<85, 99, 105, 114, 99>>, chars |-> <<219>>, bare |-> TRUE],  \* Ucirc
       [name |-> <<85, 99, 121>>, chars |-> <<1059>>, bare |-> FALSE],  \* Ucy
       [name |-> <<85, 100, 98, 108, 97, 99>>, chars |-> <<368>>, bare |-> FALSE],  \* Udblac
       [name |-> <<85, 102, 114>>, chars |-> <<120088>>, bare |-> FALSE],  \* Ufr
       [name |-> <<85, 103, 114, 97, 118, 101>>, chars |-> <<217>>, bare |-> TRUE],  \* Ugrave
       [name |-> <<85, 109, 97, 99, 114>>, chars |-> <<362>>, bare |-> FALSE],  \* Umacr
       [name |-> <<85, 110, 100, 101, 114, 66, 97, 114>>, chars |-> <<95>>, bare |-> FALSE],  \* UnderBar
       [name |-> <<85, 110, 100, 101, 114, 66, 114, 97, 99, 101>>, chars |-> <<9183>>, bare |-> FALSE],  \* UnderBrace
       [name |-> <<85, 110, 100, 101, 114, 66, 114, 97, 99, 107, 101, 116>>, chars |-> <<9141>>, bare |-> FALSE],  \* UnderBracket
       [name |-> <<85, 110, 100, 101, 114, 80, 97, 114, 101, 110, 116, 104, 101, 115, 105, 115>>, chars |-> <<9181>>, bare |-> FALSE],  \* UnderParenthesis
       [name |-> <<85, 110, 105, 111, 110>>, chars |-> <<8899>>, bare |-> FALSE],  \* Union
       [name |-> <<85, 110, 105, 111, 110, 80, 108, 117, 115>>, chars |-> <<8846>>, bare |-> FALSE],  \* UnionPlus
       [name |-> <<85, 111, 103, 111, 110>>, chars |-> <<370>>, bare |-> FALSE],  \* Uogon
       [name |-> <<85, 111, 112, 102>>, chars |-> <<120140>>, bare |-> FALSE],  \* Uopf
       [name |-> <<85, 112, 65, 114, 114, 111, 119>>, chars |-> <<8593>>, bare |-> FALSE],  \* UpArrow
       [name |-> <<85, 112, 65, 114, 114, 111, 119, 66, 97, 114>>, chars |-> <<10514>>, bare |-> FALSE],  \* UpArrowBar
       [name |-> <<85, 112, 65, 114, 114, 111, 119, 68, 111, 119, 110, 65, 114, 114, 111, 119>>, chars |-> <<8645>>, bare |-> FALSE],  \* UpArrowDownArrow
       [name |-> <<85, 112, 68, 111, 119, 110, 65, 114, 114, 111, 119>>, chars |-> <<8597>>, bare |-> FALSE],  \* UpDownArrow
       [name |-> <<85, 112, 69, 113, 117, 105, 108, 105, 98, 114, 105, 117, 109>>, chars |-> <<10606>>, bare |-> FALSE],  \* UpEquilibrium
       [name |-> <<85, 112, 84, 101, 101>>, chars |-> <<8869>>, bare |-> FALSE],  \* UpTee
       [name |-> <<85, 112, 84, 101, 101, 65, 114, 114, 111, 119>>, chars |-> <<8613>>, bare |-> FALSE],  \* UpTeeArrow
       [name |-> <<85, 112, 97, 114, 114, 111, 119>>, chars |-> <<8657>>, bare |-> FALSE],  \* Uparrow
       [name |-> <<85, 112, 100, 111, 119, 110, 97, 114, 114, 111, 119>>, chars |-> <<8661>>, bare |-> FALSE],  \* Updownarrow
       [name |-> <<85, 112, 112, 101, 114, 76, 101, 102, 116, 65, 114, 114, 111, 119>>, chars |-> <<8598>>, bare |-> FALSE],  \* UpperLeftArrow
       [name |-> <<85, 112, 112, 101, 114, 82, 105, 103, 104, 116, 65, 114, 114, 111, 119>>, chars |-> <<8599>>, bare |-> FALSE],  \* UpperRightArrow
       [name |-> <<85, 112, 115, 105>>, chars |-> <<978>>, bare |-> FALSE],  \* Upsi
       [name |-> <<85, 112, 115, 105, 108, 111, 110>>, chars |-> <<933>>, bare |-> FALSE],  \* Upsilon
       [name |-> <<85, 114, 105, 110, 103>>, chars |-> <<366>>, bare |-> FALSE],  \* Uring
       [name |-> <<85, 115, 99, 114>>, chars |-> <<119984>>, bare |-> FALSE],  \* Uscr
       [name |-> <<85, 116, 105, 108, 100, 101>>, chars |-> <<360>>, bare |-> FALSE],  \* Utilde
       [name |-> <<85, 117, 109, 108>>, chars |-> <<220>>, bare |-> TRUE],  \* Uuml
       [name |-> <<86, 68, 97, 115, 104>>, chars |-> <<8875>>, bare |-> FALSE],  \* VDash
       [name |-> <<86, 98, 97, 114>>, chars |-> <<10987>>, bare |-> FALSE],  \* Vbar
       [name |-> <<86, 99, 121>>, chars |-> <<1042>>, bare |-> FALSE],  \* Vcy
       [name |-> <<86, 100, 97, 115, 104>>, chars |-> <<8873>>, bare |-> FALSE],  \* Vdash
       [name |-> <<86, 100, 97, 115, 104, 108>>, chars |-> <<10982>>, bare |-> FALSE],  \* Vdashl
       [name |-> <<86, 101, 101>>, chars |-> <<8897>>, bare |-> FALSE],  \* Vee
       [name |-> <<86, 101, 114, 98, 97, 114>>, chars |-> <<8214>>, bare |-> FALSE],  \* Verbar
       [name |-> <<86, 101, 114, 116>>, chars |-> <<8214>>, bare |-> FALSE],  \* Vert
       [name |-> <<86, 101, 114, 116, 105, 99, 97, 108, 66, 97, 114>>, chars |-> <<8739>>, bare |-> FALSE],  \* VerticalBar
       [name |-> <<86, 101, 114, 116, 105, 99, 97, 108, 76, 105, 110, 101>>, chars |-> <<124>>, bare |-> FALSE],  \* VerticalLine
       [name |-> <<86, 101, 114, 116, 105, 99, 97, 108, 83, 101, 112, 97, 114, 97, 116, 111, 114>>, chars |-> <<10072>>, bare |-> FALSE],  \* VerticalSeparator
       [name |-> <<86, 101, 114, 116, 105, 99, 97, 108, 84, 105, 108, 100, 101>>, chars |-> <<8768>>, bare |-> FALSE],  \* VerticalTilde
       [name |-> <<86, 101, 114, 121, 84, 104, 105, 110, 83, 112, 97, 99, 101>>, chars |-> <<8202>>, bare |-> FALSE],  \* VeryThinSpace
       [name |-> <<86, 102, 114>>, chars |-> <<120089>>, bare |-> FALSE],  \* Vfr
       [name |-> <<86, 111, 112, 102>>, chars |-> <<120141>>, bare |-> FALSE],  \* Vopf
       [name |-> <<86, 115, 99, 114>>, chars |-> <<119985>>, bare |-> FALSE],  \* Vscr
       [name |-> <<86, 118, 100, 97, 115, 104>>, chars |-> <<8874>>, bare |-> FALSE],  \* Vvdash
       [name |-> <<87, 99, 105, 114, 99>>, chars |-> <<372>>, bare |-> FALSE],  \* Wcirc
       [name |-> <<87, 101, 100, 103, 101>>, chars |-> <<8896>>, bare |-> FALSE],  \* Wedge
       [name |-> <<87, 102, 114>>, chars |-> <<120090>>, bare |-> FALSE],  \* Wfr
       [name |-> <<87, 111, 112, 102>>, chars |-> <<120142>>, bare |-> FALSE],  \* Wopf
       [name |-> <<87, 115, 99, 114>>, chars |-> <<119986>>, bare |-> FALSE],  \* Wscr
       [name |-> <<88, 102, 114>>, chars |-> <<120091>>, bare |-> FALSE],  \* Xfr
       [name |-> <<88, 105>>, chars |-> <<926>>, bare |-> FALSE],  \* Xi
       [name |-> <<88, 111, 112, 102>>, chars |-> <<120143>>, bare |-> FALSE],  \* Xopf
       [name |-> <<88, 115, 99, 114>>, chars |-> <<119987>>, bare |-> FALSE],  \* Xscr
       [name |-> <<89, 65, 99, 121>>, chars |-> <<1071>>, bare |-> FALSE],  \* YAcy
       [name |-> <<89, 73, 99, 121>>, chars |-> <<1031>>, bare |-> FALSE],  \* YIcy
       [name |-> <<89, 85, 99, 121>>, chars |-> <<1070>>, bare |-> FALSE],  \* YUcy
       [name |-> <<89, 97, 99, 117, 116, 101>>, chars |-> <<221>>, bare |-> TRUE],  \* Yacute
       [name |-> <<89, 99, 105, 114, 99>>, chars |-> <<374>>, bare |-> FALSE],  \* Ycirc
       [name |-> <<89, 99, 121>>, chars |-> <<1067>>, bare |-> FALSE],  \* Ycy
       [name |-> <<89, 102, 114>>, chars |-> <<120092>>, bare |-> FALSE],  \* Yfr
       [name |-> <<89, 111, 112, 102>>, chars |-> <<120144>>, bare |-> FALSE],  \* Yopf
       [name |-> <<89, 115, 99, 114>>, chars |-> <<119988>>, bare |-> FALSE],  \* Yscr
       [name |-> <<89, 117, 109, 108>>, chars |-> <<376>>, bare |-> FALSE],  \* Yuml
       [name |-> <<90, 72, 99, 121>>, chars |-> <<1046>>, bare |-> FALSE],  \* ZHcy
       [name |-> <<90, 97, 99, 117, 116, 101>>, chars |-> <<377>>, bare |-> FALSE],  \* Zacute
       [name |-> <<90, 99, 97, 114, 111, 110>>, chars |-> <<381>>, bare |-> FALSE],  \* Zcaron
       [name |-> <<90, 99, 121>>, chars |-> <<1047>>, bare |-> FALSE],  \* Zcy
       [name |-> <<90, 100, 111, 116>>, chars |-> <<379>>, bare |-> FALSE],  \* Zdot
       [name |-> <<90, 101, 114, 111, 87, 105, 100, 116, 104, 83, 112, 97, 99, 101>>, chars |-> <<8203>>, bare |-> FALSE],  \* ZeroWidthSpace
       [name |-> <<90, 101, 116, 97>>, chars |-> <<918>>, bare |-> FALSE],  \* Zeta
       [name |-> <<90, 102, 114>>, chars |-> <<8488>>, bare |-> FALSE],  \* Zfr
       [name |-> <<90, 111, 112, 102>>, chars |-> <<8484>>, bare |-> FALSE],  \* Zopf
       [name |-> <<90, 115, 99, 114>>, chars |-> <<119989>>, bare |-> FALSE],  \* Zscr
       [name |-> <<97, 97, 99, 117, 116, 101>>, chars |-> <<225>>, bare |-> TRUE],  \* aacute
       [name |-> <<97, 98, 114, 101, 118, 101>>, chars |-> <<259>>, bare |-> FALSE],  \* abreve
       [name |-> <<97, 99>>, chars |-> <<8766>>, bare |-> FALSE],  \* ac
       [name |-> <<97, 99, 69>>, chars |-> <<8766, 819>>, bare |-> FALSE],  \* acE
       [name |-> <<97, 99, 100>>, chars |-> <<8767>>, bare |-> FALSE],  \* acd
       [name |-> <<97, 99, 105, 114, 99>>, chars |-> <<226>>, bare |-> TRUE],  \* acirc
       [name |-> <<97, 99, 117, 116, 101>>, chars |-> <<180>>, bare |-> TRUE],  \* acute
       [name |-> <<97, 99, 121>>, chars |-> <<1072>>, bare |-> FALSE],  \* acy
       [name |-> <<97, 101, 108, 105, 103>>, chars |-> <<230>>, bare |-> TRUE],  \* aelig
       [name |-> <<97, 102>>, chars |-> <<8289>>, bare |-> FALSE],  \* af
       [name |-> <<97, 102, 114>>, chars |-> <<120094>>, bare |-> FALSE],  \* afr
       [name |-> <<97, 103, 114, 97, 118, 101>>, chars |-> <<224>>, bare |-> TRUE],  \* agrave
       [name |-> <<97, 108, 101, 102, 115, 121, 109>>, chars |-> <<8501>>, bare |-> FALSE],  \* alefsym
       [name |-> <<97, 108, 101, 112, 104>>, chars |-> <<8501>>, bare |-> FALSE],  \* aleph
       [name |-> <<97, 108, 112, 104, 97>>, chars |-> <<945>>, bare |-> FALSE],  \* alpha
       [name |-> <<97, 109, 97, 99, 114>>, chars |-> <<257>>, bare |-> FALSE],  \* amacr
       [name |-> <<97, 109, 97, 108, 103>>, chars |-> <<10815>>, bare |-> FALSE],  \* amalg
       [name |-> <<97, 109, 112>>, chars |-> <<38>>, bare |-> TRUE],  \* amp
       [name |-> <<97, 110, 100>>, chars |-> <<8743>>, bare |-> FALSE],  \* and
       [name |-> <<97, 110, 100, 97, 110, 100>>, chars |-> <<10837>>, bare |-> FALSE],  \* andand
       [name |-> <<97, 110, 100, 100>>, chars |-> <<10844>>, bare |-> FALSE],  \* andd
       [name |-> <<97, 110, 100, 115, 108, 111, 112, 101>>, chars |-> <<10840>>, bare |-> FALSE],  \* andslope
       [name |-> <<97, 110, 100, 118>>, chars |-> <<10842>>, bare |-> FALSE],  \* andv
       [name |-> <<97, 110, 103>>, chars |-> <<8736>>, bare |-> FALSE],  \* ang
       [name |-> <<97, 110, 103, 101>>, chars |-> <<10660>>, bare |-> FALSE],  \* ange
       [name |-> <<97, 110, 103, 108, 101>>, chars |-> <<8736>>, bare |-> FALSE],  \* angle
       [name |-> <<97, 110, 103, 109, 115, 100>>, chars |-> <<8737>>, bare |-> FALSE],  \* angmsd
       [name |-> <<97, 110, 103, 109, 115, 100, 97, 97>>, chars |-> <<10664>>, bare |-> FALSE],  \* angmsdaa
       [name |-> <<97, 110, 103, 109, 115, 100, 97, 98>>, chars |-> <<10665>>, bare |-> FALSE],  \* angmsdab
       [name |-> <<97, 110, 103, 109, 115, 100, 97, 99>>, chars |-> <<10666>>, bare |-> FALSE],  \* angmsdac
       [name |-> <<97, 110, 103, 109, 115, 100, 97, 100>>, chars |-> <<10667>>, bare |-> FALSE],  \* angmsdad
       [name |-> <<97, 110, 103, 109, 115, 100, 97, 101>>, chars |-> <<10668>>, bare |-> FALSE],  \* angmsdae
       [name |-> <<97, 110, 103, 109, 115, 100, 97, 102>>, chars |-> <<10669>>, bare |-> FALSE],  \* angmsdaf
       [name |-> <<97, 110, 103, 109, 115, 100, 97, 103>>, chars |-> <<10670>>, bare |-> FALSE],  \* angmsdag
       [name |-> <<97, 110, 103, 109, 115, 100, 97, 104>>, chars |-> <<10671>>, bare |-> FALSE],  \* angmsdah
       [name |-> <<97, 110, 103, 114, 116>>, chars |-> <<8735>>, bare |-> FALSE],  \* angrt
       [name |-> <<97, 110, 103, 114, 116, 118, 98>>, chars |-> <<8894>>, bare |-> FALSE],  \* angrtvb
       [name |-> <<97, 110, 103, 114, 116, 118, 98, 100>>, chars |-> <<10653>>, bare |-> FALSE],  \* angrtvbd
       [name |-> <<97, 110, 103, 115, 112, 104>>, chars |-> <<8738>>, bare |-> FALSE],  \* angsph
       [name |-> <<97, 110, 103, 115, 116>>, chars |-> <<197>>, bare |-> FALSE],  \* angst
       [name |-> <<97, 110, 103, 122, 97, 114, 114>>, chars |-> <<9084>>, bare |-> FALSE],  \* angzarr
       [name |-> <<97, 111, 103, 111, 110>>, chars |-> <<261>>, bare |-> FALSE],  \* aogon
       [name |-> <<97, 111, 112, 102>>, chars |-> <<120146>>, bare |-> FALSE],  \* aopf
       [name |-> <<97, 112>>, chars |-> <<8776>>, bare |-> FALSE],  \* ap
       [name |-> <<97, 112, 69>>, chars |-> <<10864>>, bare |-> FALSE],  \* apE
       [name |-> <<97, 112, 97, 99, 105, 114>>, chars |-> <<10863>>, bare |-> FALSE],  \* apacir
       [name |-> <<97, 112, 101>>, chars |-> <<8778>>, bare |-> FALSE],  \* ape
       [name |-> <<97, 112, 105, 100>>, chars |-> <<8779>>, bare |-> FALSE],  \* apid
       [name |-> <<97, 112, 111, 115>>, chars |-> <<39>>, bare |-> FALSE],  \* apos
       [name |-> <<97, 112, 112, 114, 111, 120>>, chars |-> <<8776>>, bare |-> FALSE],  \* approx
       [name |-> <<97, 112, 112, 114, 111, 120, 101, 113>>, chars |-> <<8778>>, bare |-> FALSE],  \* approxeq
       [name |-> <<97, 114, 105, 110, 103>>, chars |-> <<229>>, bare |-> TRUE],  \* aring
       [name |-> <<97, 115, 99, 114>>, chars |-> <<119990>>, bare |-> FALSE],  \* ascr
       [name |-> <<97, 115, 116>>, chars |-> <<42>>, bare |-> FALSE],  \* ast
       [name |-> <<97, 115, 121, 109, 112>>, chars |-> <<8776>>, bare |-> FALSE],  \* asymp
       [name |-> <<97, 115, 121, 109, 112, 101, 113>>, chars |-> <<8781>>, bare |-> FALSE],  \* asympeq
       [name |-> <<97, 116, 105, 108, 100, 101>>, chars |-> <<227>>, bare |-> TRUE],  \* atilde
       [name |-> <<97, 117, 109, 108>>, chars |-> <<228>>, bare |-> TRUE],  \* auml
       [name |-> <<97, 119, 99, 111, 110, 105, 110, 116>>, chars |-> <<8755>>, bare |-> FALSE],  \* awconint
       [name |-> <<97, 119, 105, 110, 116>>, chars |-> <<10769>>, bare |-> FALSE],  \* awint
       [name |-> <<98, 78, 111, 116>>, chars |-> <<10989>>, bare |-> FALSE],  \* bNot
       [name |-> <<98, 97, 99, 107, 99, 111, 110, 103>>, chars |-> <<8780>>, bare |-> FALSE],  \* backcong
       [name |-> <<98, 97, 99, 107, 101, 112, 115, 105, 108, 111, 110>>, chars |-> <<1014>>, bare |-> FALSE],  \* backepsilon
       [name |-> <<98, 97, 99, 107, 112, 114, 105, 109, 101>>, chars |-> <<8245>>, bare |-> FALSE],  \* backprime
       [name |-> <<98, 97, 99, 107, 115, 105, 109>>, chars |-> <<8765>>, bare |-> FALSE],  \* backsim
       [name |-> <<98, 97, 99, 107, 115, 105, 109, 101, 113>>, chars |-> <<8909>>, bare |-> FALSE],  \* backsimeq
       [name |-> <<98, 97, 114, 118, 101, 101>>, chars |-> <<8893>>, bare |-> FALSE],  \* barvee
       [name |-> <<98, 97, 114, 119, 101, 100>>, chars |-> <<8965>>, bare |-> FALSE],  \* barwed
       [name |-> <<98, 97, 114, 119, 101, 100, 103, 101>>, chars |-> <<8965>>, bare |-> FALSE],  \* barwedge
       [name |-> <<98, 98, 114, 107>>, chars |-> <<9141>>, bare |-> FALSE],  \* bbrk
       [name |-> <<98, 98, 114, 107, 116, 98, 114, 107>>, chars |-> <<9142>>, bare |-> FALSE],  \* bbrktbrk
       [name |-> <<98, 99, 111, 110, 103>>, chars |-> <<8780>>, bare |-> FALSE],  \* bcong
       [name |-> <<98, 99, 121>>, chars |-> <<1073>>, bare |-> FALSE],  \* bcy
       [name |-> <<98, 100, 113, 117, 111>>, chars |-> <<8222>>, bare |-> FALSE],  \* bdquo
       [name |-> <<98, 101, 99, 97, 117, 115>>, chars |-> <<8757>>, bare |-> FALSE],  \* becaus
       [name |-> <<98, 101, 99, 97, 117, 115, 101>>, chars |-> <<8757>>, bare |-> FALSE],  \* because
       [name |-> <<98, 101, 109, 112, 116, 121, 118>>, chars |-> <<10672>>, bare |-> FALSE],  \* bemptyv
       [name |-> <<98, 101, 112, 115, 105>>, chars |-> <<1014>>, bare |-> FALSE],  \* bepsi
       [name |-> <<98, 101, 114, 110, 111, 117>>, chars |-> <<8492>>, bare |-> FALSE],  \* bernou
       [name |-> <<98, 101, 116, 97>>, chars |-> <<946>>, bare |-> FALSE],  \* beta
       [name |-> <<98, 101, 116, 104>>, chars |-> <<8502>>, bare |-> FALSE],  \* beth
       [name |-> <<98, 101, 116, 119, 101, 101, 110>>, chars |-> <<8812>>, bare |-> FALSE],  \* between
       [name |-> <<98, 102, 114>>, chars |-> <<120095>>, bare |-> FALSE],  \* bfr
       [name |-> <<98, 105, 103, 99, 97, 112>>, chars |-> <<8898>>, bare |-> FALSE],  \* bigcap
       [name |-> <<98, 105, 103, 99, 105, 114, 99>>, chars |-> <<9711>>, bare |-> FALSE],  \* bigcirc
       [name |-> <<98, 105, 103, 99, 117, 112>>, chars |-> <<8899>>, bare |-> FALSE],  \* bigcup
       [name |-> <<98, 105, 103, 111, 100, 111, 116>>, chars |-> <<10752>>, bare |-> FALSE],  \* bigodot
       [name |-> <<98, 105, 103, 111, 112, 108, 117, 115>>, chars |-> <<10753>>, bare |-> FALSE],  \* bigoplus
       [name |-> <<98, 105, 103, 111, 116, 105, 109, 101, 115>>, chars |-> <<10754>>, bare |-> FALSE],  \* bigotimes
       [name |-> <<98, 105, 103, 115, 113, 99, 117, 112>>, chars |-> <<10758>>, bare |-> FALSE],  \* bigsqcup
       [name |-> <<98, 105, 103, 115, 116, 97, 114>>, chars |-> <<9733>>, bare |-> FALSE],  \* bigstar
       [name |-> <<98, 105, 103, 116, 114, 105, 97, 110, 103, 108, 101, 100, 111, 119, 110>>, chars |-> <<9661>>, bare |-> FALSE],  \* bigtriangledown
       [name |-> <<98, 105, 103, 116, 114, 105, 97, 110, 103, 108, 101, 117, 112>>, chars |-> <<9651>>, bare |-> FALSE],  \* bigtriangleup
       [name |-> <<98, 105, 103, 117, 112, 108, 117, 115>>, chars |-> <<10756>>, bare |-> FALSE],  \* biguplus
       [name |-> <<98, 105, 103, 118, 101, 101>>, chars |-> <<8897>>, bare |-> FALSE],  \* bigvee
       [name |-> <<98, 105, 103, 119, 101, 100, 103, 101>>, chars |-> <<8896>>, bare |-> FALSE],  \* bigwedge
       [name |-> <<98, 107, 97, 114, 111, 119>>, chars |-> <<10509>>, bare |-> FALSE],  \* bkarow
       [name |-> <<98, 108, 97, 99, 107, 108, 111, 122, 101, 110, 103, 101>>, chars |-> <<10731>>, bare |-> FALSE],  \* blacklozenge
       [name |-> <<98, 108, 97, 99, 107, 115, 113, 117, 97, 114, 101>>, chars |-> <<9642>>, bare |-> FALSE],  \* blacksquare
       [name |-> <<98, 108, 97, 99, 107, 116, 114, 105, 97, 110, 103, 108, 101>>, chars |-> <<9652>>, bare |-> FALSE],  \* blacktriangle
       [name |-> <<98, 108, 97, 99, 107, 116, 114, 105, 97, 110, 103, 108, 101, 100, 111, 119, 110>>, chars |-> <<9662>>, bare |-> FALSE],  \* blacktriangledown
       [name |-> <<98, 108, 97, 99, 107, 116, 114, 105, 97, 110, 103, 108, 101, 108, 101, 102, 116>>, chars |-> <<9666>>, bare |-> FALSE],  \* blacktriangleleft
       [name |-> <<98, 108, 97, 99, 107, 116, 114, 105, 97, 110, 103, 108, 101, 114, 105, 103, 104, 116>>, chars |-> <<9656>>, bare |-> FALSE],  \* blacktriangleright
       [name |-> <<98, 108, 97, 110, 107>>, chars |-> <<9251>>, bare |-> FALSE],  \* blank
       [name |-> <<98, 108, 107, 49, 50>>, chars |-> <<9618>>, bare |-> FALSE],  \* blk12
       [name |-> <<98, 108, 107, 49, 52>>, chars |-> <<9617>>, bare |-> FALSE],  \* blk14
       [name |-> <<98, 108, 107, 51, 52>>, chars |-> <<9619>>, bare |-> FALSE],  \* blk34
       [name |-> <<98, 108, 111, 99, 107>>, chars |-> <<9608>>, bare |-> FALSE],  \* block
       [name |-> <<98, 110, 101>>, chars |-> <<61, 8421>>, bare |-> FALSE],  \* bne
       [name |-> <<98, 110, 101, 113, 117, 105, 118>>, chars |-> <<8801, 8421>>, bare |-> FALSE],  \* bnequiv
       [name |-> <<98, 110, 111, 116>>, chars |-> <<8976>>, bare |-> FALSE],  \* bnot
       [name |-> <<98, 111, 112, 102>>, chars |-> <<120147>>, bare |-> FALSE],  \* bopf
       [name |-> <<98, 111, 116>>, chars |-> <<8869>>, bare |-> FALSE],  \* bot
       [name |-> <<98, 111, 116, 116, 111, 109>>, chars |-> <<8869>>, bare |-> FALSE],  \* bottom
       [name |-> <<98, 111, 119, 116, 105, 101>>, chars |-> <<8904>>, bare |-> FALSE],  \* bowtie
       [name |-> <<98, 111, 120, 68, 76>>, chars |-> <<9559>>, bare |-> FALSE],  \* boxDL
       [name |-> <<98, 111, 120, 68, 82>>, chars |-> <<9556>>, bare |-> FALSE],  \* boxDR
       [name |-> <<98, 111, 120, 68, 108>>, chars |-> <<9558>>, bare |-> FALSE],  \* boxDl
       [name |-> <<98, 111, 120, 68, 114>>, chars |-> <<9555>>, bare |-> FALSE],  \* boxDr
       [name |-> <<98, 111, 120, 72>>, chars |-> <<9552>>, bare |-> FALSE],  \* boxH
       [name |-> <<98, 111, 120, 72, 68>>, chars |-> <<9574>>, bare |-> FALSE],  \* boxHD
       [name |-> <<98, 111, 120, 72, 85>>, chars |-> <<9577>>, bare |-> FALSE],  \* boxHU
       [name |-> <<98, 111, 120, 72, 100>>, chars |-> <<9572>>, bare |-> FALSE],  \* boxHd
       [name |-> <<98, 111, 120, 72, 117>>, chars |-> <<9575>>, bare |-> FALSE],  \* boxHu
       [name |-> <<98, 111, 120, 85, 76>>, chars |-> <<9565>>, bare |-> FALSE],  \* boxUL
       [name |-> <<98, 111, 120, 85, 82>>, chars |-> <<9562>>, bare |-> FALSE],  \* boxUR
       [name |-> <<98, 111, 120, 85, 108>>, chars |-> <<9564>>, bare |-> FALSE],  \* boxUl
       [name |-> <<98, 111, 120, 85, 114>>, chars |-> <<9561>>, bare |-> FALSE],  \* boxUr
       [name |-> <<98, 111, 120, 86>>, chars |-> <<9553>>, bare |-> FALSE],  \* boxV
       [name |-> <<98, 111, 120, 86, 72>>, chars |-> <<9580>>, bare |-> FALSE],  \* boxVH
       [name |-> <<98, 111, 120, 86, 76>>, chars |-> <<9571>>, bare |-> FALSE],  \* boxVL
       [name |-> <<98, 111, 120, 86, 82>>, chars |-> <<9568>>, bare |-> FALSE],  \* boxVR
       [name |-> <<98, 111, 120, 86, 104>>, chars |-> <<9579>>, bare |-> FALSE],  \* boxVh
       [name |-> <<98, 111, 120, 86, 108>>, chars |-> <<9570>>, bare |-> FALSE],  \* boxVl
       [name |-> <<98, 111, 120, 86, 114>>, chars |-> <<9567>>, bare |-> FALSE],  \* boxVr
       [name |-> <<98, 111, 120, 98, 111, 120>>, chars |-> <<10697>>, bare |-> FALSE],  \* boxbox
       [name |-> <<98, 111, 120, 100, 76>>, chars |-> <<9557>>, bare |-> FALSE],  \* boxdL
       [name |-> <<98, 111, 120, 100, 82>>, chars |-> <<9554>>, bare |-> FALSE],  \* boxdR
       [name |-> <<98, 111, 120, 100, 108>>, chars |-> <<9488>>, bare |-> FALSE],  \* boxdl
       [name |-> <<98, 111, 120, 100, 114>>, chars |-> <<9484>>, bare |-> FALSE],  \* boxdr
       [name |-> <<98, 111, 120, 104>>, chars |-> <<9472>>, bare |-> FALSE],  \* boxh
       [name |-> <<98, 111, 120, 104, 68>>, chars |-> <<9573>>, bare |-> FALSE],  \* boxhD
       [name |-> <<98, 111, 120, 104, 85>>, chars |-> <<9576>>, bare |-> FALSE],  \* boxhU
       [name |-> <<98, 111, 120, 104, 100>>, chars |-> <<9516>>, bare |-> FALSE],  \* boxhd
       [name |-> <<98, 111, 120, 104, 117>>, chars |-> <<9524>>, bare |-> FALSE],  \* boxhu
       [name |-> <<98, 111, 120, 109, 105, 110, 117, 115>>, chars |-> <<8863>>, bare |-> FALSE],  \* boxminus
       [name |-> <<98, 111, 120, 112, 108, 117, 115>>, chars |-> <<8862>>, bare |-> FALSE],  \* boxplus
       [name |-> <<98, 111, 120, 116, 105, 109, 101, 115>>, chars |-> <<8864>>, bare |-> FALSE],  \* boxtimes
       [name |-> <<98, 111, 120, 117, 76>>, chars |-> <<9563>>, bare |-> FALSE],  \* boxuL
       [name |-> <<98, 111, 120, 117, 82>>, chars |-> <<9560>>, bare |-> FALSE],  \* boxuR
       [name |-> <<98, 111, 120, 117, 108>>, chars |-> <<9496>>, bare |-> FALSE],  \* boxul
       [name |-> <<98, 111, 120, 117, 114>>, chars |-> <<9492>>, bare |-> FALSE],  \* boxur
       [name |-> <<98, 111, 120, 118>>, chars |-> <<9474>>, bare |-> FALSE],  \* boxv
       [name |-> <<98, 111, 120, 118, 72>>, chars |-> <<9578>>, bare |-> FALSE],  \* boxvH
       [name |-> <<98, 111, 120, 118, 76>>, chars |-> <<9569>>, bare |-> FALSE],  \* boxvL
       [name |-> <<98, 111, 120, 118, 82>>, chars |-> <<9566>>, bare |-> FALSE],  \* boxvR
       [name |-> <<98, 111, 120, 118, 104>>, chars |-> <<9532>>, bare |-> FALSE],  \* boxvh
       [name |-> <<98, 111, 120, 118, 108>>, chars |-> <<9508>>, bare |-> FALSE],  \* boxvl
       [name |-> <<98, 111, 120, 118, 114>>, chars |-> <<9500>>, bare |-> FALSE],  \* boxvr
       [name |-> <<98, 112, 114, 105, 109, 101>>, chars |-> <<8245>>, bare |-> FALSE],  \* bprime
       [name |-> <<98, 114, 101, 118, 101>>, chars |-> <<728>>, bare |-> FALSE],  \* breve
       [name |-> <<98, 114, 118, 98, 97, 114>>, chars |-> <<166>>, bare |-> TRUE],  \* brvbar
       [name |-> <<98, 115, 99, 114>>, chars |-> <<119991>>, bare |-> FALSE],  \* bscr
       [name |-> <<98, 115, 101, 109, 105>>, chars |-> <<8271>>, bare |-> FALSE],  \* bsemi
       [name |-> <<98, 115, 105, 109>>, chars |-> <<8765>>, bare |-> FALSE],  \* bsim
       [name |-> <<98, 115, 105, 109, 101>>, chars |-> <<8909>>, bare |-> FALSE],  \* bsime
       [name |-> <<98, 115, 111, 108>>, chars |-> <<92>>, bare |-> FALSE],  \* bsol
       [name |-> <<98, 115, 111, 108, 98>>, chars |-> <<10693>>, bare |-> FALSE],  \* bsolb
       [name |-> <<98, 115, 111, 108, 104, 115, 117, 98>>, chars |-> <<10184>>, bare |-> FALSE],  \* bsolhsub
       [name |-> <<98, 117, 108, 108>>, chars |-> <<8226>>, bare |-> FALSE],  \* bull
       [name |-> <<98, 117, 108, 108, 101, 116>>, chars |-> <<8226>>, bare |-> FALSE],  \* bullet
       [name |-> <<98, 117, 109, 112>>, chars |-> <<8782>>, bare |-> FALSE],  \* bump
       [name |-> <<98, 117, 109, 112, 69>>, chars |-> <<10926>>, bare |-> FALSE],  \* bumpE
       [name |-> <<98, 117, 109, 112, 101>>, chars |-> <<8783>>, bare |-> FALSE],  \* bumpe
       [name |-> <<98, 117, 109, 112, 101, 113>>, chars |-> <<8783>>, bare |-> FALSE],  \* bumpeq
       [name |-> <<99, 97, 99, 117, 116, 101>>, chars |-> <<263>>, bare |-> FALSE],  \* cacute
       [name |-> <<99, 97, 112>>, chars |-> <<8745>>, bare |-> FALSE],  \* cap
       [name |-> <<99, 97, 112, 97, 110, 100>>, chars |-> <<10820>>, bare |-> FALSE],  \* capand
       [name |-> <<99, 97, 112, 98, 114, 99, 117, 112>>, chars |-> <<10825>>, bare |-> FALSE],  \* capbrcup
       [name |-> <<99, 97, 112, 99, 97, 112>>, chars |-> <<10827>>, bare |-> FALSE],  \* capcap
       [name |-> <<99, 97, 112, 99, 117, 112>>, chars |-> <<10823>>, bare |-> FALSE],  \* capcup
       [name |-> <<99, 97, 112, 100, 111, 116>>, chars |-> <<10816>>, bare |-> FALSE],  \* capdot
       [name |-> <<99, 97, 112, 115>>, chars |-> <<8745, 65024>>, bare |-> FALSE],  \* caps
       [name |-> <<99, 97, 114, 101, 116>>, chars |-> <<8257>>, bare |-> FALSE],  \* caret
       [name |-> <<99, 97, 114, 111, 110>>, chars |-> <<711>>, bare |-> FALSE],  \* caron
       [name |-> <<99, 99, 97, 112, 115>>, chars |-> <<10829>>, bare |-> FALSE],  \* ccaps
       [name |-> <<99, 99, 97, 114, 111, 110>>, chars |-> <<269>>, bare |-> FALSE],  \* ccaron
       [name |-> <<99, 99, 101, 100, 105, 108>>, chars |-> <<231>>, bare |-> TRUE],  \* ccedil
       [name |-> <<99, 99, 105, 114, 99>>, chars |-> <<265>>, bare |-> FALSE],  \* ccirc
       [name |-> <<99, 99, 117, 112, 115>>, chars |-> <<10828>>, bare |-> FALSE],  \* ccups
       [name |-> <<99, 99, 117, 112, 115, 115, 109>>, chars |-> <<10832>>, bare |-> FALSE],  \* ccupssm
       [name |-> <<99, 100, 111, 116>>, chars |-> <<267>>, bare |-> FALSE],  \* cdot
       [name |-> <<99, 101, 100, 105, 108>>, chars |-> <<184>>, bare |-> TRUE],  \* cedil
       [name |-> <<99, 101, 109, 112, 116, 121, 118>>, chars |-> <<10674>>, bare |-> FALSE],  \* cemptyv
       [name |-> <<99, 101, 110, 116>>, chars |-> <<162>>, bare |-> TRUE],  \* cent
       [name |-> <<99, 101, 110, 116, 101, 114, 100, 111, 116>>, chars |-> <<183>>, bare |-> FALSE],  \* centerdot
       [name |-> <<99, 102, 114>>, chars |-> <<120096>>, bare |-> FALSE],  \* cfr
       [name |-> <<99, 104, 99, 121>>, chars |-> <<1095>>, bare |-> FALSE],  \* chcy
       [name |-> <<99, 104, 101, 99, 107>>, chars |-> <<10003>>, bare |-> FALSE],  \* check
       [name |-> <<99, 104, 101, 99, 107, 109, 97, 114, 107>>, chars |-> <<10003>>, bare |-> FALSE],  \* checkmark
       [name |-> <<99, 104, 105>>, chars |-> <<967>>, bare |-> FALSE],  \* chi
       [name |-> <<99, 105, 114>>, chars |-> <<9675>>, bare |-> FALSE],  \* cir
       [name |-> <<99, 105, 114, 69>>, chars |-> <<10691>>, bare |-> FALSE],  \* cirE
       [name |-> <<99, 105, 114, 99>>, chars |-> <<710>>, bare |-> FALSE],  \* circ
       [name |-> <<99, 105, 114, 99, 101, 113>>, chars |-> <<8791>>, bare |-> FALSE],  \* circeq
       [name |-> <<99, 105, 114, 99, 108, 101, 97, 114, 114, 111, 119, 108, 101, 102, 116>>, chars |-> <<8634>>, bare |-> FALSE],  \* circlearrowleft
       [name |-> <<99, 105, 114, 99, 108, 101, 97, 114, 114, 111, 119, 114, 105, 103, 104, 116>>, chars |-> <<8635>>, bare |-> FALSE],  \* circlearrowright
       [name |-> <<99, 105, 114, 99, 108, 101, 100, 82>>, chars |-> <<174>>, bare |-> FALSE],  \* circledR
       [name |-> <<99, 105, 114, 99, 108, 101, 100, 83>>, chars |-> <<9416>>, bare |-> FALSE],  \* circledS
       [name |-> <<99, 105, 114, 99, 108, 101, 100, 97, 115, 116>>, chars |-> <<8859>>, bare |-> FALSE],  \* circledast
       [name |-> <<99, 105, 114, 99, 108, 101, 100, 99, 105, 114, 99>>, chars |-> <<8858>>, bare |-> FALSE],  \* circledcirc
       [name |-> <<99, 105, 114, 99, 108, 101, 100, 100, 97, 115, 104>>, chars |-> <<8861>>, bare |-> FALSE],  \* circleddash
       [name |-> <<99, 105, 114, 101>>, chars |-> <<8791>>, bare |-> FALSE],  \* cire
       [name |-> <<99, 105, 114, 102, 110, 105, 110, 116>>, chars |-> <<10768>>, bare |-> FALSE],  \* cirfnint
       [name |-> <<99, 105, 114, 109, 105, 100>>, chars |-> <<10991>>, bare |-> FALSE],  \* cirmid
       [name |-> <<99, 105, 114, 115, 99, 105, 114>>, chars |-> <<10690>>, bare |-> FALSE],  \* cirscir
       [name |-> <<99, 108, 117, 98, 115>>, chars |-> <<9827>>, bare |-> FALSE],  \* clubs
       [name |-> <<99, 108, 117, 98, 115, 117, 105, 116>>, chars |-> <<9827>>, bare |-> FALSE],  \* clubsuit
       [name |-> <<99, 111, 108, 111, 110>>, chars |-> <<58>>, bare |-> FALSE],  \* colon
       [name |-> <<99, 111, 108, 111, 110, 101>>, chars |-> <<8788>>, bare |-> FALSE],  \* colone
       [name |-> <<99, 111, 108, 111, 110, 101, 113>>, chars |-> <<8788>>, bare |-> FALSE],  \* coloneq
       [name |-> <<99, 111, 109, 109, 97>>, chars |-> <<44>>, bare |-> FALSE],  \* comma
       [name |-> <<99, 111, 109, 109, 97, 116>>, chars |-> <<64>>, bare |-> FALSE],  \* commat
       [name |-> <<99, 111, 109, 112>>, chars |-> <<8705>>, bare |-> FALSE],  \* comp
       [name |-> <<99, 111, 109, 112, 102, 110>>, chars |-> <<8728>>, bare |-> FALSE],  \* compfn
       [name |-> <<99, 111, 109, 112, 108, 101, 109, 101, 110, 116>>, chars |-> <<8705>>, bare |-> FALSE],  \* complement
       [name |-> <<99, 111, 109, 112, 108, 101, 120, 101, 115>>, chars |-> <<8450>>, bare |-> FALSE],  \* complexes
       [name |-> <<99, 111, 110, 103>>, chars |-> <<8773>>, bare |-> FALSE],  \* cong
       [name |-> <<99, 111, 110, 103, 100, 111, 116>>, chars |-> <<10861>>, bare |-> FALSE],  \* congdot
       [name |-> <<99, 111, 110, 105, 110, 116>>, chars |-> <<8750>>, bare |-> FALSE],  \* conint
       [name |-> <<99, 111, 112, 102>>, chars |-> <<120148>>, bare |-> FALSE],  \* copf
       [name |-> <<99, 111, 112, 114, 111, 100>>, chars |-> <<8720>>, bare |-> FALSE],  \* coprod
       [name |-> <<99, 111, 112, 121>>, chars |-> <<169>>, bare |-> TRUE],  \* copy
       [name |-> <<99, 111, 112, 121, 115, 114>>, chars |-> <<8471>>, bare |-> FALSE],  \* copysr
       [name |-> <<99, 114, 97, 114, 114>>, chars |-> <<8629>>, bare |-> FALSE],  \* crarr
       [name |-> <<99, 114, 111, 115, 115>>, chars |-> <<10007>>, bare |-> FALSE],  \* cross
       [name |-> <<99, 115, 99, 114>>, chars |-> <<119992>>, bare |-> FALSE],  \* cscr
       [name |-> <<99, 115, 117, 98>>, chars |-> <<10959>>, bare |-> FALSE],  \* csub
       [name |-> <<99, 115, 117, 98, 101>>, chars |-> <<10961>>, bare |-> FALSE],  \* csube
       [name |-> <<99, 115, 117, 112>>, chars |-> <<10960>>, bare |-> FALSE],  \* csup
       [name |-> <<99, 115, 117, 112, 101>>, chars |-> <<10962>>, bare |-> FALSE],  \* csupe
       [name |-> <<99, 116, 100, 111, 116>>, chars |-> <<8943>>, bare |-> FALSE],  \* ctdot
       [name |-> <<99, 117, 100, 97, 114, 114, 108>>, chars |-> <<10552>>, bare |-> FALSE],  \* cudarrl
       [name |-> <<99, 117, 100, 97, 114, 114, 114>>, chars |-> <<10549>>, bare |-> FALSE],  \* cudarrr
       [name |-> <<99, 117, 101, 112, 114>>, chars |-> <<8926>>, bare |-> FALSE],  \* cuepr
       [name |-> <<99, 117, 101, 115, 99>>, chars |-> <<8927>>, bare |-> FALSE],  \* cuesc
       [name |-> <<99, 117, 108, 97, 114, 114>>, chars |-> <<8630>>, bare |-> FALSE],  \* cularr
       [name |-> <<99, 117, 108, 97, 114, 114, 112>>, chars |-> <<10557>>, bare |-> FALSE],  \* cularrp
       [name |-> <<99, 117, 112>>, chars |-> <<8746>>, bare |-> FALSE],  \* cup
       [name |-> <<99, 117, 112, 98, 114, 99, 97, 112>>, chars |-> <<10824>>, bare |-> FALSE],  \* cupbrcap
       [name |-> <<99, 117, 112, 99, 97, 112>>, chars |-> <<10822>>, bare |-> FALSE],  \* cupcap
       [name |-> <<99, 117, 112, 99, 117, 112>>, chars |-> <<10826>>, bare |-> FALSE],  \* cupcup
       [name |-> <<99, 117, 112, 100, 111, 116>>, chars |-> <<8845>>, bare |-> FALSE],  \* cupdot
       [name |-> <<99, 117, 112, 111, 114>>, chars |-> <<10821>>, bare |-> FALSE],  \* cupor
       [name |-> <<99, 117, 112, 115>>, chars |-> <<8746, 65024>>, bare |-> FALSE],  \* cups
       [name |-> <<99, 117, 114, 97, 114, 114>>, chars |-> <<8631>>, bare |-> FALSE],  \* curarr
       [name |-> <<99, 117, 114, 97, 114, 114, 109>>, chars |-> <<10556>>, bare |-> FALSE],  \* curarrm
       [name |-> <<99, 117, 114, 108, 121, 101, 113, 112, 114, 101, 99>>, chars |-> <<8926>>, bare |-> FALSE],  \* curlyeqprec
       [name |-> <<99, 117, 114, 108, 121, 101, 113, 115, 117, 99, 99>>, chars |-> <<8927>>, bare |-> FALSE],  \* curlyeqsucc
       [name |-> <<99, 117, 114, 108, 121, 118, 101, 101>>, chars |-> <<8910>>, bare |-> FALSE],  \* curlyvee
       [name |-> <<99, 117, 114, 108, 121, 119, 101, 100, 103, 101>>, chars |-> <<8911>>, bare |-> FALSE],  \* curlywedge
       [name |-> <<99, 117, 114, 114, 101, 110>>, chars |-> <<164>>, bare |-> TRUE],  \* curren
       [name |-> <<99, 117, 114, 118, 101, 97, 114, 114, 111, 119, 108, 101, 102, 116>>, chars |-> <<8630>>, bare |-> FALSE],  \* curvearrowleft
       [name |-> <<99, 117, 114, 118, 101, 97, 114, 114, 111, 119, 114, 105, 103, 104, 116>>, chars |-> <<8631>>, bare |-> FALSE],  \* curvearrowright
       [name |-> <<99, 117, 118, 101, 101>>, chars |-> <<8910>>, bare |-> FALSE],  \* cuvee
       [name |-> <<99, 117, 119, 101, 100>>, chars |-> <<8911>>, bare |-> FALSE],  \* cuwed
       [name |-> <<99, 119, 99, 111, 110, 105, 110, 116>>, chars |-> <<8754>>, bare |-> FALSE],  \* cwconint
       [name |-> <<99, 119, 105, 110, 116>>, chars |-> <<8753>>, bare |-> FALSE],  \* cwint
       [name |-> <<99, 121, 108, 99, 116, 121>>, chars |-> <<9005>>, bare |-> FALSE],  \* cylcty
       [name |-> <<100, 65, 114, 114>>, chars |-> <<8659>>, bare |-> FALSE],  \* dArr
       [name |-> <<100, 72, 97, 114>>, chars |-> <<10597>>, bare |-> FALSE],  \* dHar
       [name |-> <<100, 97, 103, 103, 101, 114>>, chars |-> <<8224>>, bare |-> FALSE],  \* dagger
       [name |-> <<100, 97, 108, 101, 116, 104>>, chars |-> <<8504>>, bare |-> FALSE],  \* daleth
       [name |-> <<100, 97, 114, 114>>, chars |-> <<8595>>, bare |-> FALSE],  \* darr
       [name |-> <<100, 97, 115, 104>>, chars |-> <<8208>>, bare |-> FALSE],  \* dash
       [name |-> <<100, 97, 115, 104, 118>>, chars |-> <<8867>>, bare |-> FALSE],  \* dashv
       [name |-> <<100, 98, 107, 97, 114, 111, 119>>, chars |-> <<10511>>, bare |-> FALSE],  \* dbkarow
       [name |-> <<100, 98, 108, 97, 99>>, chars |-> <<733>>, bare |-> FALSE],  \* dblac
       [name |-> <<100, 99, 97, 114, 111, 110>>, chars |-> <<271>>, bare |-> FALSE],  \* dcaron
       [name |-> <<100, 99, 121>>, chars |-> <<1076>>, bare |-> FALSE],  \* dcy
       [name |-> <<100, 100>>, chars |-> <<8518>>, bare |-> FALSE],  \* dd
       [name |-> <<100, 100, 97, 103, 103, 101, 114>>, chars |-> <<8225>>, bare |-> FALSE],  \* ddagger
       [name |-> <<100, 100, 97, 114, 114>>, chars |-> <<8650>>, bare |-> FALSE],  \* ddarr
       [name |-> <<100, 100, 111, 116, 115, 101, 113>>, chars |-> <<10871>>, bare |-> FALSE],  \* ddotseq
       [name |-> <<100, 101, 103>>, chars |-> <<176>>, bare |-> TRUE],  \* deg
       [name |-> <<100, 101, 108, 116, 97>>, chars |-> <<948>>, bare |-> FALSE],  \* delta
       [name |-> <<100, 101, 109, 112, 116, 121, 118>>, chars |-> <<10673>>, bare |-> FALSE],  \* demptyv
       [name |-> <<100, 102, 105, 115, 104, 116>>, chars |-> <<10623>>, bare |-> FALSE],  \* dfisht
       [name |-> <<100, 102, 114>>, chars |-> <<120097>>, bare |-> FALSE],  \* dfr
       [name |-> <<100, 104, 97, 114, 108>>, chars |-> <<8643>>, bare |-> FALSE],  \* dharl
       [name |-> <<100, 104, 97, 114, 114>>, chars |-> <<8642>>, bare |-> FALSE],  \* dharr
       [name |-> <<100, 105, 97, 109>>, chars |-> <<8900>>, bare |-> FALSE],  \* diam
       [name |-> <<100, 105, 97, 109, 111, 110, 100>>, chars |-> <<8900>>, bare |-> FALSE],  \* diamond
       [name |-> <<100, 105, 97, 109, 111, 110, 100, 115, 117, 105, 116>>, chars |-> <<9830>>, bare |-> FALSE],  \* diamondsuit
       [name |-> <<100, 105, 97, 109, 115>>, chars |-> <<9830>>, bare |-> FALSE],  \* diams
       [name |-> <<100, 105, 101>>, chars |-> <<168>>, bare |-> FALSE],  \* die
       [name |-> <<100, 105, 103, 97, 109, 109, 97>>, chars |-> <<989>>, bare |-> FALSE],  \* digamma
       [name |-> <<100, 105, 115, 105, 110>>, chars |-> <<8946>>, bare |-> FALSE],  \* disin
       [name |-> <<100, 105, 118>>, chars |-> <<247>>, bare |-> FALSE],  \* div
       [name |-> <<100, 105, 118, 105, 100, 101>>, chars |-> <<247>>, bare |-> TRUE],  \* divide
       [name |-> <<100, 105, 118, 105, 100, 101, 111, 110, 116, 105, 109, 101, 115>>, chars |-> <<8903>>, bare |-> FALSE],  \* divideontimes
       [name |-> <<100, 105, 118, 111, 110, 120>>, chars |-> <<8903>>, bare |-> FALSE],  \* divonx
       [name |-> <<100, 106, 99, 121>>, chars |-> <<1106>>, bare |-> FALSE],  \* djcy
       [name |-> <<100, 108, 99, 111, 114, 110>>, chars |-> <<8990>>, bare |-> FALSE],  \* dlcorn
       [name |-> <<100, 108, 99, 114, 111, 112>>, chars |-> <<8973>>, bare |-> FALSE],  \* dlcrop
       [name |-> <<100, 111, 108, 108, 97, 114>>, chars |-> <<36>>, bare |-> FALSE],  \* dollar
       [name |-> <<100, 111, 112, 102>>, chars |-> <<120149>>, bare |-> FALSE],  \* dopf
       [name |-> <<100, 111, 116>>, chars |-> <<729>>, bare |-> FALSE],  \* dot
       [name |-> <<100, 111, 116, 101, 113>>, chars |-> <<8784>>, bare |-> FALSE],  \* doteq
       [name |-> <<100, 111, 116, 101, 113, 100, 111, 116>>, chars |-> <<8785>>, bare |-> FALSE],  \* doteqdot
       [name |-> <<100, 111, 116, 109, 105, 110, 117, 115>>, chars |-> <<8760>>, bare |-> FALSE],  \* dotminus
       [name |-> <<100, 111, 116, 112, 108, 117, 115>>, chars |-> <<8724>>, bare |-> FALSE],  \* dotplus
       [name |-> <<100, 111, 116, 115, 113, 117, 97, 114, 101>>, chars |-> <<8865>>, bare |-> FALSE],  \* dotsquare
       [name |-> <<100, 111, 117, 98, 108, 101, 98, 97, 114, 119, 101, 100, 103, 101>>, chars |-> <<8966>>, bare |-> FALSE],  \* doublebarwedge
       [name |-> <<100, 111, 119, 110, 97, 114, 114, 111, 119>>, chars |-> <<8595>>, bare |-> FALSE],  \* downarrow
       [name |-> <<100, 111, 119, 110, 100, 111, 119, 110, 97, 114, 114, 111, 119, 115>>, chars |-> <<8650>>, bare |-> FALSE],  \* downdownarrows
       [name |-> <<100, 111, 119, 110, 104, 97, 114, 112, 111, 111, 110, 108, 101, 102, 116>>, chars |-> <<8643>>, bare |-> FALSE],  \* downharpoonleft
       [name |-> <<100, 111, 119, 110, 104, 97, 114, 112, 111, 111, 110, 114, 105, 103, 104, 116>>, chars |-> <<8642>>, bare |-> FALSE],  \* downharpoonright
       [name |-> <<100, 114, 98, 107, 97, 114, 111, 119>>, chars |-> <<10512>>, bare |-> FALSE],  \* drbkarow
       [name |-> <<100, 114, 99, 111, 114, 110>>, chars |-> <<8991>>, bare |-> FALSE],  \* drcorn
       [name |-> <<100, 114, 99, 114, 111, 112>>, chars |-> <<8972>>, bare |-> FALSE],  \* drcrop
       [name |-> <<100, 115, 99, 114>>, chars |-> <<119993>>, bare |-> FALSE],  \* dscr
       [name |-> <<100, 115, 99, 121>>, chars |-> <<1109>>, bare |-> FALSE],  \* dscy
       [name |-> <<100, 115, 111, 108>>, chars |-> <<10742>>, bare |-> FALSE],  \* dsol
       [name |-> <<100, 115, 116, 114, 111, 107>>, chars |-> <<273>>, bare |-> FALSE],  \* dstrok
       [name |-> <<100, 116, 100, 111, 116>>, chars |-> <<8945>>, bare |-> FALSE],  \* dtdot
       [name |-> <<100, 116, 114, 105>>, chars |-> <<9663>>, bare |-> FALSE],  \* dtri
       [name |-> <<100, 116, 114, 105, 102>>, chars |-> <<9662>>, bare |-> FALSE],  \* dtrif
       [name |-> <<100, 117, 97, 114, 114>>, chars |-> <<8693>>, bare |-> FALSE],  \* duarr
       [name |-> <<100, 117, 104, 97, 114>>, chars |-> <<10607>>, bare |-> FALSE],  \* duhar
       [name |-> <<100, 119, 97, 110, 103, 108, 101>>, chars |-> <<10662>>, bare |-> FALSE],  \* dwangle
       [name |-> <<100, 122, 99, 121>>, chars |-> <<1119>>, bare |-> FALSE],  \* dzcy
       [name |-> <<100, 122, 105, 103, 114, 97, 114, 114>>, chars |-> <<10239>>, bare |-> FALSE],  \* dzigrarr
       [name |-> <<101, 68, 68, 111, 116>>, chars |-> <<10871>>, bare |-> FALSE],  \* eDDot
       [name |-> <<101, 68, 111, 116>>, chars |-> <<8785>>, bare |-> FALSE],  \* eDot
       [name |-> <<101, 97, 99, 117, 116, 101>>, chars |-> <<233>>, bare |-> TRUE],  \* eacute
       [name |-> <<101, 97, 115, 116, 101, 114>>, chars |-> <<10862>>, bare |-> FALSE],  \* easter
       [name |-> <<101, 99, 97, 114, 111, 110>>, chars |-> <<283>>, bare |-> FALSE],  \* ecaron
       [name |-> <<101, 99, 105, 114>>, chars |-> <<8790>>, bare |-> FALSE],  \* ecir
       [name |-> <<101, 99, 105, 114, 99>>, chars |-> <<234>>, bare |-> TRUE],  \* ecirc
       [name |-> <<101, 99, 111, 108, 111, 110>>, chars |-> <<8789>>, bare |-> FALSE],  \* ecolon
       [name |-> <<101, 99, 121>>, chars |-> <<1101>>, bare |-> FALSE],  \* ecy
       [name |-> <<101, 100, 111, 116>>, chars |-> <<279>>, bare |-> FALSE],  \* edot
       [name |-> <<101, 101>>, chars |-> <<8519>>, bare |-> FALSE],  \* ee
       [name |-> <<101, 102, 68, 111, 116>>, chars |-> <<8786>>, bare |-> FALSE],  \* efDot
       [name |-> <<101, 102, 114>>, chars |-> <<120098>>, bare |-> FALSE],  \* efr
       [name |-> <<101, 103>>, chars |-> <<10906>>, bare |-> FALSE],  \* eg
       [name |-> <<101, 103, 114, 97, 118, 101>>, chars |-> <<232>>, bare |-> TRUE],  \* egrave
       [name |-> <<101, 103, 115>>, chars |-> <<10902>>, bare |-> FALSE],  \* egs
       [name |-> <<101, 103, 115, 100, 111, 116>>, chars |-> <<10904>>, bare |-> FALSE],  \* egsdot
       [name |-> <<101, 108>>, chars |-> <<10905>>, bare |-> FALSE],  \* el
       [name |-> <<101, 108, 105, 110, 116, 101, 114, 115>>, chars |-> <<9191>>, bare |-> FALSE],  \* elinters
       [name |-> <<101, 108, 108>>, chars |-> <<8467>>, bare |-> FALSE],  \* ell
       [name |-> <<101, 108, 115>>, chars |-> <<10901>>, bare |-> FALSE],  \* els
       [name |-> <<101, 108, 115, 100, 111, 116>>, chars |-> <<10903>>, bare |-> FALSE],  \* elsdot
       [name |-> <<101, 109, 97, 99, 114>>, chars |-> <<275>>, bare |-> FALSE],  \* emacr
       [name |-> <<101, 109, 112, 116, 121>>, chars |-> <<8709>>, bare |-> FALSE],  \* empty
       [name |-> <<101, 109, 112, 116, 121, 115, 101, 116>>, chars |-> <<8709>>, bare |-> FALSE],  \* emptyset
       [name |-> <<101, 109, 112, 116, 121, 118>>, chars |-> <<8709>>, bare |-> FALSE],  \* emptyv
       [name |-> <<101, 109, 115, 112>>, chars |-> <<8195>>, bare |-> FALSE],  \* emsp
       [name |-> <<101, 109, 115, 112, 49, 51>>, chars |-> <<8196>>, bare |-> FALSE],  \* emsp13
       [name |-> <<101, 109, 115, 112, 49, 52>>, chars |-> <<8197>>, bare |-> FALSE],  \* emsp14
       [name |-> <<101, 110, 103>>, chars |-> <<331>>, bare |-> FALSE],  \* eng
       [name |-> <<101, 110, 115, 112>>, chars |-> <<8194>>, bare |-> FALSE],  \* ensp
       [name |-> <<101, 111, 103, 111, 110>>, chars |-> <<281>>, bare |-> FALSE],  \* eogon
       [name |-> <<101, 111, 112, 102>>, chars |-> <<120150>>, bare |-> FALSE],  \* eopf
       [name |-> <<101, 112, 97, 114>>, chars |-> <<8917>>, bare |-> FALSE],  \* epar
       [name |-> <<101, 112, 97, 114, 115, 108>>, chars |-> <<10723>>, bare |-> FALSE],  \* eparsl
       [name |-> <<101, 112, 108, 117, 115>>, chars |-> <<10865>>, bare |-> FALSE],  \* eplus
       [name |-> <<101, 112, 115, 105>>, chars |-> <<949>>, bare |-> FALSE],  \* epsi
       [name |-> <<101, 112, 115, 105, 108, 111, 110>>, chars |-> <<949>>, bare |-> FALSE],  \* epsilon
       [name |-> <<101, 112, 115, 105, 118>>, chars |-> <<1013>>, bare |-> FALSE],  \* epsiv
       [name |-> <<101, 113, 99, 105, 114, 99>>, chars |-> <<8790>>, bare |-> FALSE],  \* eqcirc
       [name |-> <<101, 113, 99, 111, 108, 111, 110>>, chars |-> <<8789>>, bare |-> FALSE],  \* eqcolon
       [name |-> <<101, 113, 115, 105, 109>>, chars |-> <<8770>>, bare |-> FALSE],  \* eqsim
       [name |-> <<101, 113, 115, 108, 97, 110, 116, 103, 116, 114>>, chars |-> <<10902>>, bare |-> FALSE],  \* eqslantgtr
       [name |-> <<101, 113, 115, 108, 97, 110, 116, 108, 101, 115, 115>>, chars |-> <<10901>>, bare |-> FALSE],  \* eqslantless
       [name |-> <<101, 113, 117, 97, 108, 115>>, chars |-> <<61>>, bare |-> FALSE],  \* equals
       [name |-> <<101, 113, 117, 101, 115, 116>>, chars |-> <<8799>>, bare |-> FALSE],  \* equest
       [name |-> <<101, 113, 117, 105, 118>>, chars |-> <<8801>>, bare |-> FALSE],  \* equiv
       [name |-> <<101, 113, 117, 105, 118, 68, 68>>, chars |-> <<10872>>, bare |-> FALSE],  \* equivDD
       [name |-> <<101, 113, 118, 112, 97, 114, 115, 108>>, chars |-> <<10725>>, bare |-> FALSE],  \* eqvparsl
       [name |-> <<101, 114, 68, 111, 116>>, chars |-> <<8787>>, bare |-> FALSE],  \* erDot
       [name |-> <<101, 114, 97, 114, 114>>, chars |-> <<10609>>, bare |-> FALSE],  \* erarr
       [name |-> <<101, 115, 99, 114>>, chars |-> <<8495>>, bare |-> FALSE],  \* escr
       [name |-> <<101, 115, 100, 111, 116>>, chars |-> <<8784>>, bare |-> FALSE],  \* esdot
       [name |-> <<101, 115, 105, 109>>, chars |-> <<8770>>, bare |-> FALSE],  \* esim
       [name |-> <<101, 116, 97>>, chars |-> <<951>>, bare |-> FALSE],  \* eta
       [name |-> <<101, 116, 104>>, chars |-> <<240>>, bare |-> TRUE],  \* eth
       [name |-> <<101, 117, 109, 108>>, chars |-> <<235>>, bare |-> TRUE],  \* euml
       [name |-> <<101, 117, 114, 111>>, chars |-> <<8364>>, bare |-> FALSE],  \* euro
       [name |-> <<101, 120, 99, 108>>, chars |-> <<33>>, bare |-> FALSE],  \* excl
       [name |-> <<101, 120, 105, 115, 116>>, chars |-> <<8707>>, bare |-> FALSE],  \* exist
       [name |-> <<101, 120, 112, 101, 99, 116, 97, 116, 105, 111, 110>>, chars |-> <<8496>>, bare |-> FALSE],  \* expectation
       [name |-> <<101, 120, 112, 111, 110, 101, 110, 116, 105, 97, 108, 101>>, chars |-> <<8519>>, bare |-> FALSE],  \* exponentiale
       [name |-> <<102, 97, 108, 108, 105, 110, 103, 100, 111, 116, 115, 101, 113>>, chars |-> <<8786>>, bare |-> FALSE],  \* fallingdotseq
       [name |-> <<102, 99, 121>>, chars |-> <<1092>>, bare |-> FALSE],  \* fcy
       [name |-> <<102, 101, 109, 97, 108, 101>>, chars |-> <<9792>>, bare |-> FALSE],  \* female
       [name |-> <<102, 102, 105, 108, 105, 103>>, chars |-> <<64259>>, bare |-> FALSE],  \* ffilig
       [name |-> <<102, 102, 108, 105, 103>>, chars |-> <<64256>>, bare |-> FALSE],  \* fflig
       [name |-> <<102, 102, 108, 108, 105, 103>>, chars |-> <<64260>>, bare |-> FALSE],  \* ffllig
       [name |-> <<102, 102, 114>>, chars |-> <<120099>>, bare |-> FALSE],  \* ffr
       [name |-> <<102, 105, 108, 105, 103>>, chars |-> <<64257>>, bare |-> FALSE],  \* filig
       [name |-> <<102, 106, 108, 105, 103>>, chars |-> <<102, 106>>, bare |-> FALSE],  \* fjlig
       [name |-> <<102, 108, 97, 116>>, chars |-> <<9837>>, bare |-> FALSE],  \* flat
       [name |-> <<102, 108, 108, 105, 103>>, chars |-> <<64258>>, bare |-> FALSE],  \* fllig
       [name |-> <<102, 108, 116, 110, 115>>, chars |-> <<9649>>, bare |-> FALSE],  \* fltns
       [name |-> <<102, 110, 111, 102>>, chars |-> <<402>>, bare |-> FALSE],  \* fnof
       [name |-> <<102, 111, 112, 102>>, chars |-> <<120151>>, bare |-> FALSE],  \* fopf
       [name |-> <<102, 111, 114, 97, 108, 108>>, chars |-> <<8704>>, bare |-> FALSE],  \* forall
       [name |-> <<102, 111, 114, 107>>, chars |-> <<8916>>, bare |-> FALSE],  \* fork
       [name |-> <<102, 111, 114, 107, 118>>, chars |-> <<10969>>, bare |-> FALSE],  \* forkv
       [name |-> <<102, 112, 97, 114, 116, 105, 110, 116>>, chars |-> <<10765>>, bare |-> FALSE],  \* fpartint
       [name |-> <<102, 114, 97, 99, 49, 50>>, chars |-> <<189>>, bare |-> TRUE],  \* frac12
       [name |-> <<102, 114, 97, 99, 49, 51>>, chars |-> <<8531>>, bare |-> FALSE],  \* frac13
       [name |-> <<102, 114, 97, 99, 49, 52>>, chars |-> <<188>>, bare |-> TRUE],  \* frac14
       [name |-> <<102, 114, 97, 99, 49, 53>>, chars |-> <<8533>>, bare |-> FALSE],  \* frac15
       [name |-> <<102, 114, 97, 99, 49, 54>>, chars |-> <<8537>>, bare |-> FALSE],  \* frac16
       [name |-> <<102, 114, 97, 99, 49, 56>>, chars |-> <<8539>>, bare |-> FALSE],  \* frac18
       [name |-> <<102, 114, 97, 99, 50, 51>>, chars |-> <<8532>>, bare |-> FALSE],  \* frac23
       [name |-> <<102, 114, 97, 99, 50, 53>>, chars |-> <<8534>>, bare |-> FALSE],  \* frac25
       [name |-> <<102, 114, 97, 99, 51, 52>>, chars |-> <<190>>, bare |-> TRUE],  \* frac34
       [name |-> <<102, 114, 97, 99, 51, 53>>, chars |-> <<8535>>, bare |-> FALSE],  \* frac35
       [name |-> <<102, 114, 97, 99, 51, 56>>, chars |-> <<8540>>, bare |-> FALSE],  \* frac38
       [name |-> <<102, 114, 97, 99, 52, 53>>, chars |-> <<8536>>, bare |-> FALSE],  \* frac45
       [name |-> <<102, 114, 97, 99, 53, 54>>, chars |-> <<8538>>, bare |-> FALSE],  \* frac56
       [name |-> <<102, 114, 97, 99, 53, 56>>, chars |-> <<8541>>, bare |-> FALSE],  \* frac58
       [name |-> <<102, 114, 97, 99, 55, 56>>, chars |-> <<8542>>, bare |-> FALSE],  \* frac78
       [name |-> <<102, 114, 97, 115, 108>>, chars |-> <<8260>>, bare |-> FALSE],  \* frasl
       [name |-> <<102, 114, 111, 119, 110>>, chars |-> <<8994>>, bare |-> FALSE],  \* frown
       [name |-> <<102, 115, 99, 114>>, chars |-> <<119995>>, bare |-> FALSE],  \* fscr
       [name |-> <<103, 69>>, chars |-> <<8807>>, bare |-> FALSE],  \* gE
       [name |-> <<103, 69, 108>>, chars |-> <<10892>>, bare |-> FALSE],  \* gEl
       [name |-> <<103, 97, 99, 117, 116, 101>>, chars |-> <<501>>, bare |-> FALSE],  \* gacute
       [name |-> <<103, 97, 109, 109, 97>>, chars |-> <<947>>, bare |-> FALSE],  \* gamma
       [name |-> <<103, 97, 109, 109, 97, 100>>, chars |-> <<989>>, bare |-> FALSE],  \* gammad
       [name |-> <<103, 97, 112>>, chars |-> <<10886>>, bare |-> FALSE],  \* gap
       [name |-> <<103, 98, 114, 101, 118, 101>>, chars |-> <<287>>, bare |-> FALSE],  \* gbreve
       [name |-> <<103, 99, 105, 114, 99>>, chars |-> <<285>>, bare |-> FALSE],  \* gcirc
       [name |-> <<103, 99, 121>>, chars |-> <<1075>>, bare |-> FALSE],  \* gcy
       [name |-> <<103, 100, 111, 116>>, chars |-> <<289>>, bare |-> FALSE],  \* gdot
       [name |-> <<103, 101>>, chars |-> <<8805>>, bare |-> FALSE],  \* ge
       [name |-> <<103, 101, 108>>, chars |-> <<8923>>, bare |-> FALSE],  \* gel
       [name |-> <<103, 101, 113>>, chars |-> <<8805>>, bare |-> FALSE],  \* geq
       [name |-> <<103, 101, 113, 113>>, chars |-> <<8807>>, bare |-> FALSE],  \* geqq
       [name |-> <<103, 101, 113, 115, 108, 97, 110, 116>>, chars |-> <<10878>>, bare |-> FALSE],  \* geqslant
       [name |-> <<103, 101, 115>>, chars |-> <<10878>>, bare |-> FALSE],  \* ges
       [name |-> <<103, 101, 115, 99, 99>>, chars |-> <<10921>>, bare |-> FALSE],  \* gescc
       [name |-> <<103, 101, 115, 100, 111, 116>>, chars |-> <<10880>>, bare |-> FALSE],  \* gesdot
       [name |-> <<103, 101, 115, 100, 111, 116, 111>>, chars |-> <<10882>>, bare |-> FALSE],  \* gesdoto
       [name |-> <<103, 101, 115, 100, 111, 116, 111, 108>>, chars |-> <<10884>>, bare |-> FALSE],  \* gesdotol
       [name |-> <<103, 101, 115, 108>>, chars |-> <<8923, 65024>>, bare |-> FALSE],  \* gesl
       [name |-> <<103, 101, 115, 108, 101, 115>>, chars |-> <<10900>>, bare |-> FALSE],  \* gesles
       [name |-> <<103, 102, 114>>, chars |-> <<120100>>, bare |-> FALSE],  \* gfr
       [name |-> <<103, 103>>, chars |-> <<8811>>, bare |-> FALSE],  \* gg
       [name |-> <<103, 103, 103>>, chars |-> <<8921>>, bare |-> FALSE],  \* ggg
       [name |-> <<103, 105, 109, 101, 108>>, chars |-> <<8503>>, bare |-> FALSE],  \* gimel
       [name |-> <<103, 106, 99, 121>>, chars |-> <<1107>>, bare |-> FALSE],  \* gjcy
       [name |-> <<103, 108>>, chars |-> <<8823>>, bare |-> FALSE],  \* gl
       [name |-> <<103, 108, 69>>, chars |-> <<10898>>, bare |-> FALSE],  \* glE
       [name |-> <<103, 108, 97>>, chars |-> <<10917>>, bare |-> FALSE],  \* gla
       [name |-> <<103, 108, 106>>, chars |-> <<10916>>, bare |-> FALSE],  \* glj
       [name |-> <<103, 110, 69>>, chars |-> <<8809>>, bare |-> FALSE],  \* gnE
       [name |-> <<103, 110, 97, 112>>, chars |-> <<10890>>, bare |-> FALSE],  \* gnap
       [name |-> <<103, 110, 97, 112, 112, 114, 111, 120>>, chars |-> <<10890>>, bare |-> FALSE],  \* gnapprox
       [name |-> <<103, 110, 101>>, chars |-> <<10888>>, bare |-> FALSE],  \* gne
       [name |-> <<103, 110, 101, 113>>, chars |-> <<10888>>, bare |-> FALSE],  \* gneq
       [name |-> <<103, 110, 101, 113, 113>>, chars |-> <<8809>>, bare |-> FALSE],  \* gneqq
       [name |-> <<103, 110, 115, 105, 109>>, chars |-> <<8935>>, bare |-> FALSE],  \* gnsim
       [name |-> <<103, 111, 112, 102>>, chars |-> <<120152>>, bare |-> FALSE],  \* gopf
       [name |-> <<103, 114, 97, 118, 101>>, chars |-> <<96>>, bare |-> FALSE],  \* grave
       [name |-> <<103, 115, 99, 114>>, chars |-> <<8458>>, bare |-> FALSE],  \* gscr
       [name |-> <<103, 115, 105, 109>>, chars |-> <<8819>>, bare |-> FALSE],  \* gsim
       [name |-> <<103, 115, 105, 109, 101>>, chars |-> <<10894>>, bare |-> FALSE],  \* gsime
       [name |-> <<103, 115, 105, 109, 108>>, chars |-> <<10896>>, bare |-> FALSE],  \* gsiml
       [name |-> <<103, 116>>, chars |-> <<62>>, bare |-> TRUE],  \* gt
       [name |-> <<103, 116, 99, 99>>, chars |-> <<10919>>, bare |-> FALSE],  \* gtcc
       [name |-> <<103, 116, 99, 105, 114>>, chars |-> <<10874>>, bare |-> FALSE],  \* gtcir
       [name |-> <<103, 116, 100, 111, 116>>, chars |-> <<8919>>, bare |-> FALSE],  \* gtdot
       [name |-> <<103, 116, 108, 80, 97, 114>>, chars |-> <<10645>>, bare |-> FALSE],  \* gtlPar
       [name |-> <<103, 116, 113, 117, 101, 115, 116>>, chars |-> <<10876>>, bare |-> FALSE],  \* gtquest
       [name |-> <<103, 116, 114, 97, 112, 112, 114, 111, 120>>, chars |-> <<10886>>, bare |-> FALSE],  \* gtrapprox
       [name |-> <<103, 116, 114, 97, 114, 114>>, chars |-> <<10616>>, bare |-> FALSE],  \* gtrarr
       [name |-> <<103, 116, 114, 100, 111, 116>>, chars |-> <<8919>>, bare |-> FALSE],  \* gtrdot
       [name |-> <<103, 116, 114, 101, 113, 108, 101, 115, 115>>, chars |-> <<8923>>, bare |-> FALSE],  \* gtreqless
       [name |-> <<103, 116, 114, 101, 113, 113, 108, 101, 115, 115>>, chars |-> <<10892>>, bare |-> FALSE],  \* gtreqqless
       [name |-> <<103, 116, 114, 108, 101, 115, 115>>, chars |-> <<8823>>, bare |-> FALSE],  \* gtrless
       [name |-> <<103, 116, 114, 115, 105, 109>>, chars |-> <<8819>>, bare |-> FALSE],  \* gtrsim
       [name |-> <<103, 118, 101, 114, 116, 110, 101, 113, 113>>, chars |-> <<8809, 65024>>, bare |-> FALSE],  \* gvertneqq
       [name |-> <<103, 118, 110, 69>>, chars |-> <<8809, 65024>>, bare |-> FALSE],  \* gvnE
       [name |-> <<104, 65, 114, 114>>, chars |-> <<8660>>, bare |-> FALSE],  \* hArr
       [name |-> <<104, 97, 105, 114, 115, 112>>, chars |-> <<8202>>, bare |-> FALSE],  \* hairsp
       [name |-> <<104, 97, 108, 102>>, chars |-> <<189>>, bare |-> FALSE],  \* half
       [name |-> <<104, 97, 109, 105, 108, 116>>, chars |-> <<8459>>, bare |-> FALSE],  \* hamilt
       [name |-> <<104, 97, 114, 100, 99, 121>>, chars |-> <<1098>>, bare |-> FALSE],  \* hardcy
       [name |-> <<104, 97, 114, 114>>, chars |-> <<8596>>, bare |-> FALSE],  \* harr
       [name |-> <<104, 97, 114, 114, 99, 105, 114>>, chars |-> <<10568>>, bare |-> FALSE],  \* harrcir
       [name |-> <<104, 97, 114, 114, 119>>, chars |-> <<8621>>, bare |-> FALSE],  \* harrw
       [name |-> <<104, 98, 97, 114>>, chars |-> <<8463>>, bare |-> FALSE],  \* hbar
       [name |-> <<104, 99, 105, 114, 99>>, chars |-> <<293>>, bare |-> FALSE],  \* hcirc
       [name |-> <<104, 101, 97, 114, 116, 115>>, chars |-> <<9829>>, bare |-> FALSE],  \* hearts
       [name |-> <<104, 101, 97, 114, 116, 115, 117, 105, 116>>, chars |-> <<9829>>, bare |-> FALSE],  \* heartsuit
       [name |-> <<104, 101, 108, 108, 105, 112>>, chars |-> <<8230>>, bare |-> FALSE],  \* hellip
       [name |-> <<104, 101, 114, 99, 111, 110>>, chars |-> <<8889>>, bare |-> FALSE],  \* hercon
       [name |-> <<104, 102, 114>>, chars |-> <<120101>>, bare |-> FALSE],  \* hfr
       [name |-> <<104, 107, 115, 101, 97, 114, 111, 119>>, chars |-> <<10533>>, bare |-> FALSE],  \* hksearow
       [name |-> <<104, 107, 115, 119, 97, 114, 111, 119>>, chars |-> <<10534>>, bare |-> FALSE],  \* hkswarow
       [name |-> <<104, 111, 97, 114, 114>>, chars |-> <<8703>>, bare |-> FALSE],  \* hoarr
       [name |-> <<104, 111, 109, 116, 104, 116>>, chars |-> <<8763>>, bare |-> FALSE],  \* homtht
       [name |-> <<104, 111, 111, 107, 108, 101, 102, 116, 97, 114, 114, 111, 119>>, chars |-> <<8617>>, bare |-> FALSE],  \* hookleftarrow
       [name |-> <<104, 111, 111, 107, 114, 105, 103, 104, 116, 97, 114, 114, 111, 119>>, chars |-> <<8618>>, bare |-> FALSE],  \* hookrightarrow
       [name |-> <<104, 111, 112, 102>>, chars |-> <<120153>>, bare |-> FALSE],  \* hopf
       [name |-> <<104, 111, 114, 98, 97, 114>>, chars |-> <<8213>>, bare |-> FALSE],  \* horbar
       [name |-> <<104, 115, 99, 114>>, chars |-> <<119997>>, bare |-> FALSE],  \* hscr
       [name |-> <<104, 115, 108, 97, 115, 104>>, chars |-> <<8463>>, bare |-> FALSE],  \* hslash
       [name |-> <<104, 115, 116, 114, 111, 107>>, chars |-> <<295>>, bare |-> FALSE],  \* hstrok
       [name |-> <<104, 121, 98, 117, 108, 108>>, chars |-> <<8259>>, bare |-> FALSE],  \* hybull
       [name |-> <<104, 121, 112, 104, 101, 110>>, chars |-> <<8208>>, bare |-> FALSE],  \* hyphen
       [name |-> <<105, 97, 99, 117, 116, 101>>, chars |-> <<237>>, bare |-> TRUE],  \* iacute
       [name |-> <<105, 99>>, chars |-> <<8291>>, bare |-> FALSE],  \* ic
       [name |-> <<105, 99, 105, 114, 99>>, chars |-> <<238>>, bare |-> TRUE],  \* icirc
       [name |-> <<105, 99, 121>>, chars |-> <<1080>>, bare |-> FALSE],  \* icy
       [name |-> <<105, 101, 99, 121>>, chars |-> <<1077>>, bare |-> FALSE],  \* iecy
       [name |-> <<105, 101, 120, 99, 108>>, chars |-> <<161>>, bare |-> TRUE],  \* iexcl
       [name |-> <<105, 102, 102>>, chars |-> <<8660>>, bare |-> FALSE],  \* iff
       [name |-> <<105, 102, 114>>, chars |-> <<120102>>, bare |-> FALSE],  \* ifr
       [name |-> <<105, 103, 114, 97, 118, 101>>, chars |-> <<236>>, bare |-> TRUE],  \* igrave
       [name |-> <<105, 105>>, chars |-> <<8520>>, bare |-> FALSE],  \* ii
       [name |-> <<105, 105, 105, 105, 110, 116>>, chars |-> <<10764>>, bare |-> FALSE],  \* iiiint
       [name |-> <<105, 105, 105, 110, 116>>, chars |-> <<8749>>, bare |-> FALSE],  \* iiint
       [name |-> <<105, 105, 110, 102, 105, 110>>, chars |-> <<10716>>, bare |-> FALSE],  \* iinfin
       [name |-> <<105, 105, 111, 116, 97>>, chars |-> <<8489>>, bare |-> FALSE],  \* iiota
       [name |-> <<105, 106, 108, 105, 103>>, chars |-> <<307>>, bare |-> FALSE],  \* ijlig
       [name |-> <<105, 109, 97, 99, 114>>, chars |-> <<299>>, bare |-> FALSE],  \* imacr
       [name |-> <<105, 109, 97, 103, 101>>, chars |-> <<8465>>, bare |-> FALSE],  \* image
       [name |-> <<105, 109, 97, 103, 108, 105, 110, 101>>, chars |-> <<8464>>, bare |-> FALSE],  \* imagline
       [name |-> <<105, 109, 97, 103, 112, 97, 114, 116>>, chars |-> <<8465>>, bare |-> FALSE],  \* imagpart
       [name |-> <<105, 109, 97, 116, 104>>, chars |-> <<305>>, bare |-> FALSE],  \* imath
       [name |-> <<105, 109, 111, 102>>, chars |-> <<8887>>, bare |-> FALSE],  \* imof
       [name |-> <<105, 109, 112, 101, 100>>, chars |-> <<437>>, bare |-> FALSE],  \* imped
       [name |-> <<105, 110>>, chars |-> <<8712>>, bare |-> FALSE],  \* in
       [name |-> <<105, 110, 99, 97, 114, 101>>, chars |-> <<8453>>, bare |-> FALSE],  \* incare
       [name |-> <<105, 110, 102, 105, 110>>, chars |-> <<8734>>, bare |-> FALSE],  \* infin
       [name |-> <<105, 110, 102, 105, 110, 116, 105, 101>>, chars |-> <<10717>>, bare |-> FALSE],  \* infintie
       [name |-> <<105, 110, 111, 100, 111, 116>>, chars |-> <<305>>, bare |-> FALSE],  \* inodot
       [name |-> <<105, 110, 116>>, chars |-> <<8747>>, bare |-> FALSE],  \* int
       [name |-> <<105, 110, 116, 99, 97, 108>>, chars |-> <<8890>>, bare |-> FALSE],  \* intcal
       [name |-> <<105, 110, 116, 101, 103, 101, 114, 115>>, chars |-> <<8484>>, bare |-> FALSE],  \* integers
       [name |-> <<105, 110, 116, 101, 114, 99, 97, 108>>, chars |-> <<8890>>, bare |-> FALSE],  \* intercal
       [name |-> <<105, 110, 116, 108, 97, 114, 104, 107>>, chars |-> <<10775>>, bare |-> FALSE],  \* intlarhk
       [name |-> <<105, 110, 116, 112, 114, 111, 100>>, chars |-> <<10812>>, bare |-> FALSE],  \* intprod
       [name |-> <<105, 111, 99, 121>>, chars |-> <<1105>>, bare |-> FALSE],  \* iocy
       [name |-> <<105, 111, 103, 111, 110>>, chars |-> <<303>>, bare |-> FALSE],  \* iogon
       [name |-> <<105, 111, 112, 102>>, chars |-> <<120154>>, bare |-> FALSE],  \* iopf
       [name |-> <<105, 111, 116, 97>>, chars |-> <<953>>, bare |-> FALSE],  \* iota
       [name |-> <<105, 112, 114, 111, 100>>, chars |-> <<10812>>, bare |-> FALSE],  \* iprod
       [name |-> <<105, 113, 117, 101, 115, 116>>, chars |-> <<191>>, bare |-> TRUE],  \* iquest
       [name |-> <<105, 115, 99, 114>>, chars |-> <<119998>>, bare |-> FALSE],  \* iscr
       [name |-> <<105, 115, 105, 110>>, chars |-> <<8712>>, bare |-> FALSE],  \* isin
       [name |-> <<105, 115, 105, 110, 69>>, chars |-> <<8953>>, bare |-> FALSE],  \* isinE
       [name |-> <<105, 115, 105, 110, 100, 111, 116>>, chars |-> <<8949>>, bare |-> FALSE],  \* isindot
       [name |-> <<105, 115, 105, 110, 115>>, chars |-> <<8948>>, bare |-> FALSE],  \* isins
       [name |-> <<105, 115, 105, 110, 115, 118>>, chars |-> <<8947>>, bare |-> FALSE],  \* isinsv
       [name |-> <<105, 115, 105, 110, 118>>, chars |-> <<8712>>, bare |-> FALSE],  \* isinv
       [name |-> <<105, 116>>, chars |-> <<8290>>, bare |-> FALSE],  \* it
       [name |-> <<105, 116, 105, 108, 100, 101>>, chars |-> <<297>>, bare |-> FALSE],  \* itilde
       [name |-> <<105, 117, 107, 99, 121>>, chars |-> <<1110>>, bare |-> FALSE],  \* iukcy
       [name |-> <<105, 117, 109, 108>>, chars |-> <<239>>, bare |-> TRUE],  \* iuml
       [name |-> <<106, 99, 105, 114, 99>>, chars |-> <<309>>, bare |-> FALSE],  \* jcirc
       [name |-> <<106, 99, 121>>, chars |-> <<1081>>, bare |-> FALSE],  \* jcy
       [name |-> <<106, 102, 114>>, chars |-> <<120103>>, bare |-> FALSE],  \* jfr
       [name |-> <<106, 109, 97, 116, 104>>, chars |-> <<567>>, bare |-> FALSE],  \* jmath
       [name |-> <<106, 111, 112, 102>>, chars |-> <<120155>>, bare |-> FALSE],  \* jopf
       [name |-> <<106, 115, 99, 114>>, chars |-> <<119999>>, bare |-> FALSE],  \* jscr
       [name |-> <<106, 115, 101, 114, 99, 121>>, chars |-> <<1112>>, bare |-> FALSE],  \* jsercy
       [name |-> <<106, 117, 107, 99, 121>>, chars |-> <<1108>>, bare |-> FALSE],  \* jukcy
       [name |-> <<107, 97, 112, 112, 97>>, chars |-> <<954>>, bare |-> FALSE],  \* kappa
       [name |-> <<107, 97, 112, 112, 97, 118>>, chars |-> <<1008>>, bare |-> FALSE],  \* kappav
       [name |-> <<107, 99, 101, 100, 105, 108>>, chars |-> <<311>>, bare |-> FALSE],  \* kcedil
       [name |-> <<107, 99, 121>>, chars |-> <<1082>>, bare |-> FALSE],  \* kcy
       [name |-> <<107, 102, 114>>, chars |-> <<120104>>, bare |-> FALSE],  \* kfr
       [name |-> <<107, 103, 114, 101, 101, 110>>, chars |-> <<312>>, bare |-> FALSE],  \* kgreen
       [name |-> <<107, 104, 99, 121>>, chars |-> <<1093>>, bare |-> FALSE],  \* khcy
       [name |-> <<107, 106, 99, 121>>, chars |-> <<1116>>, bare |-> FALSE],  \* kjcy
       [name |-> <<107, 111, 112, 102>>, chars |-> <<120156>>, bare |-> FALSE],  \* kopf
       [name |-> <<107, 115, 99, 114>>, chars |-> <<120000>>, bare |-> FALSE],  \* kscr
       [name |-> <<108, 65, 97, 114, 114>>, chars |-> <<8666>>, bare |-> FALSE],  \* lAarr
       [name |-> <<108, 65, 114, 114>>, chars |-> <<8656>>, bare |-> FALSE],  \* lArr
       [name |-> <<108, 65, 116, 97, 105, 108>>, chars |-> <<10523>>, bare |-> FALSE],  \* lAtail
       [name |-> <<108, 66, 97, 114, 114>>, chars |-> <<10510>>, bare |-> FALSE],  \* lBarr
       [name |-> <<108, 69>>, chars |-> <<8806>>, bare |-> FALSE],  \* lE
       [name |-> <<108, 69, 103>>, chars |-> <<10891>>, bare |-> FALSE],  \* lEg
       [name |-> <<108, 72, 97, 114>>, chars |-> <<10594>>, bare |-> FALSE],  \* lHar
       [name |-> <<108, 97, 99, 117, 116, 101>>, chars |-> <<314>>, bare |-> FALSE],  \* lacute
       [name |-> <<108, 97, 101, 109, 112, 116, 121, 118>>, chars |-> <<10676>>, bare |-> FALSE],  \* laemptyv
       [name |-> <<108, 97, 103, 114, 97, 110>>, chars |-> <<8466>>, bare |-> FALSE],  \* lagran
       [name |-> <<108, 97, 109, 98, 100, 97>>, chars |-> <<955>>, bare |-> FALSE],  \* lambda
       [name |-> <<108, 97, 110, 103>>, chars |-> <<10216>>, bare |-> FALSE],  \* lang
       [name |-> <<108, 97, 110, 103, 100>>, chars |-> <<10641>>, bare |-> FALSE],  \* langd
       [name |-> <<108, 97, 110, 103, 108, 101>>, chars |-> <<10216>>, bare |-> FALSE],  \* langle
       [name |-> <<108, 97, 112>>, chars |-> <<10885>>, bare |-> FALSE],  \* lap
       [name |-> <<108, 97, 113, 117, 111>>, chars |-> <<171>>, bare |-> TRUE],  \* laquo
       [name |-> <<108, 97, 114, 114>>, chars |-> <<8592>>, bare |-> FALSE],  \* larr
       [name |-> <<108, 97, 114, 114, 98>>, chars |-> <<8676>>, bare |-> FALSE],  \* larrb
       [name |-> <<108, 97, 114, 114, 98, 102, 115>>, chars |-> <<10527>>, bare |-> FALSE],  \* larrbfs
       [name |-> <<108, 97, 114, 114, 102, 115>>, chars |-> <<10525>>, bare |-> FALSE],  \* larrfs
       [name |-> <<108, 97, 114, 114, 104, 107>>, chars |-> <<8617>>, bare |-> FALSE],  \* larrhk
       [name |-> <<108, 97, 114, 114, 108, 112>>, chars |-> <<8619>>, bare |-> FALSE],  \* larrlp
       [name |-> <<108, 97, 114, 114, 112, 108>>, chars |-> <<10553>>, bare |-> FALSE],  \* larrpl
       [name |-> <<108, 97, 114, 114, 115, 105, 109>>, chars |-> <<10611>>, bare |-> FALSE],  \* larrsim
       [name |-> <<108, 97, 114, 114, 116, 108>>, chars |-> <<8610>>, bare |-> FALSE],  \* larrtl
       [name |-> <<108, 97, 116>>, chars |-> <<10923>>, bare |-> FALSE],  \* lat
       [name |-> <<108, 97, 116, 97, 105, 108>>, chars |-> <<10521>>, bare |-> FALSE],  \* latail
       [name |-> <<108, 97, 116, 101>>, chars |-> <<10925>>, bare |-> FALSE],  \* late
       [name |-> <<108, 97, 116, 101, 115>>, chars |-> <<10925, 65024>>, bare |-> FALSE],  \* lates
       [name |-> <<108, 98, 97, 114, 114>>, chars |-> <<10508>>, bare |-> FALSE],  \* lbarr
       [name |-> <<108, 98, 98, 114, 107>>, chars |-> <<10098>>, bare |-> FALSE],  \* lbbrk
       [name |-> <<108, 98, 114, 97, 99, 101>>, chars |-> <<123>>, bare |-> FALSE],  \* lbrace
       [name |-> <<108, 98, 114, 97, 99, 107>>, chars |-> <<91>>, bare |-> FALSE],  \* lbrack
       [name |-> <<108, 98, 114, 107, 101>>, chars |-> <<10635>>, bare |-> FALSE],  \* lbrke
       [name |-> <<108, 98, 114, 107, 115, 108, 100>>, chars |-> <<10639>>, bare |-> FALSE],  \* lbrksld
       [name |-> <<108, 98, 114, 107, 115, 108, 117>>, chars |-> <<10637>>, bare |-> FALSE],  \* lbrkslu
       [name |-> <<108, 99, 97, 114, 111, 110>>, chars |-> <<318>>, bare |-> FALSE],  \* lcaron
       [name |-> <<108, 99, 101, 100, 105, 108>>, chars |-> <<316>>, bare |-> FALSE],  \* lcedil
       [name |-> <<108, 99, 101, 105, 108>>, chars |-> <<8968>>, bare |-> FALSE],  \* lceil
       [name |-> <<108, 99, 117, 98>>, chars |-> <<123>>, bare |-> FALSE],  \* lcub
       [name |-> <<108, 99, 121>>, chars |-> <<1083>>, bare |-> FALSE],  \* lcy
       [name |-> <<108, 100, 99, 97>>, chars |-> <<10550>>, bare |-> FALSE],  \* ldca
       [name |-> <<108, 100, 113, 117, 111>>, chars |-> <<8220>>, bare |-> FALSE],  \* ldquo
       [name |-> <<108, 100, 113, 117, 111, 114>>, chars |-> <<8222>>, bare |-> FALSE],  \* ldquor
       [name |-> <<108, 100, 114, 100, 104, 97, 114>>, chars |-> <<10599>>, bare |-> FALSE],  \* ldrdhar
       [name |-> <<108, 100, 114, 117, 115, 104, 97, 114>>, chars |-> <<10571>>, bare |-> FALSE],  \* ldrushar
       [name |-> <<108, 100, 115, 104>>, chars |-> <<8626>>, bare |-> FALSE],  \* ldsh
       [name |-> <<108, 101>>, chars |-> <<8804>>, bare |-> FALSE],  \* le
       [name |-> <<108, 101, 102, 116, 97, 114, 114, 111, 119>>, chars |-> <<8592>>, bare |-> FALSE],  \* leftarrow
       [name |-> <<108, 101, 102, 116, 97, 114, 114, 111, 119, 116, 97, 105, 108>>, chars |-> <<8610>>, bare |-> FALSE],  \* leftarrowtail
       [name |-> <<108, 101, 102, 116, 104, 97, 114, 112, 111, 111, 110, 100, 111, 119, 110>>, chars |-> <<8637>>, bare |-> FALSE],  \* leftharpoondown
       [name |-> <<108, 101, 102, 116, 104, 97, 114, 112, 111, 111, 110, 117, 112>>, chars |-> <<8636>>, bare |-> FALSE],  \* leftharpoonup
       [name |-> <<108, 101, 102, 116, 108, 101, 102, 116, 97, 114, 114, 111, 119, 115>>, chars |-> <<8647>>, bare |-> FALSE],  \* leftleftarrows
       [name |-> <<108, 101, 102, 116, 114, 105, 103, 104, 116, 97, 114, 114, 111, 119>>, chars |-> <<8596>>, bare |-> FALSE],  \* leftrightarrow
       [name |-> <<108, 101, 102, 116, 114, 105, 103, 104, 116, 97, 114, 114, 111, 119, 115>>, chars |-> <<8646>>, bare |-> FALSE],  \* leftrightarrows
       [name |-> <<108, 101, 102, 116, 114, 105, 103, 104, 116, 104, 97, 114, 112, 111, 111, 110, 115>>, chars |-> <<8651>>, bare |-> FALSE],  \* leftrightharpoons
       [name |-> <<108, 101, 102, 116, 114, 105, 103, 104, 116, 115, 113, 117, 105, 103, 97, 114, 114, 111, 119>>, chars |-> <<8621>>, bare |-> FALSE],  \* leftrightsquigarrow
       [name |-> <<108, 101, 102, 116, 116, 104, 114, 101, 101, 116, 105, 109, 101, 115>>, chars |-> <<8907>>, bare |-> FALSE],  \* leftthreetimes
       [name |-> <<108, 101, 103>>, chars |-> <<8922>>, bare |-> FALSE],  \* leg
       [name |-> <<108, 101, 113>>, chars |-> <<8804>>, bare |-> FALSE],  \* leq
       [name |-> <<108, 101, 113, 113>>, chars |-> <<8806>>, bare |-> FALSE],  \* leqq
       [name |-> <<108, 101, 113, 115, 108, 97, 110, 116>>, chars |-> <<10877>>, bare |-> FALSE],  \* leqslant
       [name |-> <<108, 101, 115>>, chars |-> <<10877>>, bare |-> FALSE],  \* les
       [name |-> <<108, 101, 115, 99, 99>>, chars |-> <<10920>>, bare |-> FALSE],  \* lescc
       [name |-> <<108, 101, 115, 100, 111, 116>>, chars |-> <<10879>>, bare |-> FALSE],  \* lesdot
       [name |-> <<108, 101, 115, 100, 111, 116, 111>>, chars |-> <<10881>>, bare |-> FALSE],  \* lesdoto
       [name |-> <<108, 101, 115, 100, 111, 116, 111, 114>>, chars |-> <<10883>>, bare |-> FALSE],  \* lesdotor
       [name |-> <<108, 101, 115, 103>>, chars |-> <<8922, 65024>>, bare |-> FALSE],  \* lesg
       [name |-> <<108, 101, 115, 103, 101, 115>>, chars |-> <<10899>>, bare |-> FALSE],  \* lesges
       [name |-> <<108, 101, 115, 115, 97, 112, 112, 114, 111, 120>>, chars |-> <<10885>>, bare |-> FALSE],  \* lessapprox
       [name |-> <<108, 101, 115, 115, 100, 111, 116>>, chars |-> <<8918>>, bare |-> FALSE],  \* lessdot
       [name |-> <<108, 101, 115, 115, 101, 113, 103, 116, 114>>, chars |-> <<8922>>, bare |-> FALSE],  \* lesseqgtr
       [name |-> <<108, 101, 115, 115, 101, 113, 113, 103, 116, 114>>, chars |-> <<10891>>, bare |-> FALSE],  \* lesseqqgtr
       [name |-> <<108, 101, 115, 115, 103, 116, 114>>, chars |-> <<8822>>, bare |-> FALSE],  \* lessgtr
       [name |-> <<108, 101, 115, 115, 115, 105, 109>>, chars |-> <<8818>>, bare |-> FALSE],  \* lesssim
       [name |-> <<108, 102, 105, 115, 104, 116>>, chars |-> <<10620>>, bare |-> FALSE],  \* lfisht
       [name |-> <<108, 102, 108, 111, 111, 114>>, chars |-> <<8970>>, bare |-> FALSE],  \* lfloor
       [name |-> <<108, 102, 114>>, chars |-> <<120105>>, bare |-> FALSE],  \* lfr
       [name |-> <<108, 103>>, chars |-> <<8822>>, bare |-> FALSE],  \* lg
       [name |-> <<108, 103, 69>>, chars |-> <<10897>>, bare |-> FALSE],  \* lgE
       [name |-> <<108, 104, 97, 114, 100>>, chars |-> <<8637>>, bare |-> FALSE],  \* lhard
       [name |-> <<108, 104, 97, 114, 117>>, chars |-> <<8636>>, bare |-> FALSE],  \* lharu
       [name |-> <<108, 104, 97, 114, 117, 108>>, chars |-> <<10602>>, bare |-> FALSE],  \* lharul
       [name |-> <<108, 104, 98, 108, 107>>, chars |-> <<9604>>, bare |-> FALSE],  \* lhblk
       [name |-> <<108, 106, 99, 121>>, chars |-> <<1113>>, bare |-> FALSE],  \* ljcy
       [name |-> <<108, 108>>, chars |-> <<8810>>, bare |-> FALSE],  \* ll
       [name |-> <<108, 108, 97, 114, 114>>, chars |-> <<8647>>, bare |-> FALSE],  \* llarr
       [name |-> <<108, 108, 99, 111, 114, 110, 101, 114>>, chars |-> <<8990>>, bare |-> FALSE],  \* llcorner
       [name |-> <<108, 108, 104, 97, 114, 100>>, chars |-> <<10603>>, bare |-> FALSE],  \* llhard
       [name |-> <<108, 108, 116, 114, 105>>, chars |-> <<9722>>, bare |-> FALSE],  \* lltri
       [name |-> <<108, 109, 105, 100, 111, 116>>, chars |-> <<320>>, bare |-> FALSE],  \* lmidot
       [name |-> <<108, 109, 111, 117, 115, 116>>, chars |-> <<9136>>, bare |-> FALSE],  \* lmoust
       [name |-> <<108, 109, 111, 117, 115, 116, 97, 99, 104, 101>>, chars |-> <<9136>>, bare |-> FALSE],  \* lmoustache
       [name |-> <<108, 110, 69>>, chars |-> <<8808>>, bare |-> FALSE],  \* lnE
       [name |-> <<108, 110, 97, 112>>, chars |-> <<10889>>, bare |-> FALSE],  \* lnap
       [name |-> <<108, 110, 97, 112, 112, 114, 111, 120>>, chars |-> <<10889>>, bare |-> FALSE],  \* lnapprox
       [name |-> <<108, 110, 101>>, chars |-> <<10887>>, bare |-> FALSE],  \* lne
       [name |-> <<108, 110, 101, 113>>, chars |-> <<10887>>, bare |-> FALSE],  \* lneq
       [name |-> <<108, 110, 101, 113, 113>>, chars |-> <<8808>>, bare |-> FALSE],  \* lneqq
       [name |-> <<108, 110, 115, 105, 109>>, chars |-> <<8934>>, bare |-> FALSE],  \* lnsim
       [name |-> <<108, 111, 97, 110, 103>>, chars |-> <<10220>>, bare |-> FALSE],  \* loang
       [name |-> <<108, 111, 97, 114, 114>>, chars |-> <<8701>>, bare |-> FALSE],  \* loarr
       [name |-> <<108, 111, 98, 114, 107>>, chars |-> <<10214>>, bare |-> FALSE],  \* lobrk
       [name |-> <<108, 111, 110, 103, 108, 101, 102, 116, 97, 114, 114, 111, 119>>, chars |-> <<10229>>, bare |-> FALSE],  \* longleftarrow
       [name |-> <<108, 111, 110, 103, 108, 101, 102, 116, 114, 105, 103, 104, 116, 97, 114, 114, 111, 119>>, chars |-> <<10231>>, bare |-> FALSE],  \* longleftrightarrow
       [name |-> <<108, 111, 110, 103, 109, 97, 112, 115, 116, 111>>, chars |-> <<10236>>, bare |-> FALSE],  \* longmapsto
       [name |-> <<108, 111, 110, 103, 114, 105, 103, 104, 116, 97, 114, 114, 111, 119>>, chars |-> <<10230>>, bare |-> FALSE],  \* longrightarrow
       [name |-> <<108, 111, 111, 112, 97, 114, 114, 111, 119, 108, 101, 102, 116>>, chars |-> <<8619>>, bare |-> FALSE],  \* looparrowleft
       [name |-> <<108, 111, 111, 112, 97, 114, 114, 111, 119, 114, 105, 103, 104, 116>>, chars |-> <<8620>>, bare |-> FALSE],  \* looparrowright
       [name |-> <<108, 111, 112, 97, 114>>, chars |-> <<10629>>, bare |-> FALSE],  \* lopar
       [name |-> <<108, 111, 112, 102>>, chars |-> <<120157>>, bare |-> FALSE],  \* lopf
       [name |-> <<108, 111, 112, 108, 117, 115>>, chars |-> <<10797>>, bare |-> FALSE],  \* loplus
       [name |-> <<108, 111, 116, 105, 109, 101, 115>>, chars |-> <<10804>>, bare |-> FALSE],  \* lotimes
       [name |-> <<108, 111, 119, 97, 115, 116>>, chars |-> <<8727>>, bare |-> FALSE],  \* lowast
       [name |-> <<108, 111, 119, 98, 97, 114>>, chars |-> <<95>>, bare |-> FALSE],  \* lowbar
       [name |-> <<108, 111, 122>>, chars |-> <<9674>>, bare |-> FALSE],  \* loz
       [name |-> <<108, 111, 122, 101, 110, 103, 101>>, chars |-> <<9674>>, bare |-> FALSE],  \* lozenge
       [name |-> <<108, 111, 122, 102>>, chars |-> <<10731>>, bare |-> FALSE],  \* lozf
       [name |-> <<108, 112, 97, 114>>, chars |-> <<40>>, bare |-> FALSE],  \* lpar
       [name |-> <<108, 112, 97, 114, 108, 116>>, chars |-> <<10643>>, bare |-> FALSE],  \* lparlt
       [name |-> <<108, 114, 97, 114, 114>>, chars |-> <<8646>>, bare |-> FALSE],  \* lrarr
       [name |-> <<108, 114, 99, 111, 114, 110, 101, 114>>, chars |-> <<8991>>, bare |-> FALSE],  \* lrcorner
       [name |-> <<108, 114, 104, 97, 114>>, chars |-> <<8651>>, bare |-> FALSE],  \* lrhar
       [name |-> <<108, 114, 104, 97, 114, 100>>, chars |-> <<10605>>, bare |-> FALSE],  \* lrhard
       [name |-> <<108, 114, 109>>, chars |-> <<8206>>, bare |-> FALSE],  \* lrm
       [name |-> <<108, 114, 116, 114, 105>>, chars |-> <<8895>>, bare |-> FALSE],  \* lrtri
       [name |-> <<108, 115, 97, 113, 117, 111>>, chars |-> <<8249>>, bare |-> FALSE],  \* lsaquo
       [name |-> <<108, 115, 99, 114>>, chars |-> <<120001>>, bare |-> FALSE],  \* lscr
       [name |-> <<108, 115, 104>>, chars |-> <<8624>>, bare |-> FALSE],  \* lsh
       [name |-> <<108, 115, 105, 109>>, chars |-> <<8818>>, bare |-> FALSE],  \* lsim
       [name |-> <<108, 115, 105, 109, 101>>, chars |-> <<10893>>, bare |-> FALSE],  \* lsime
       [name |-> <<108, 115, 105, 109, 103>>, chars |-> <<10895>>, bare |-> FALSE],  \* lsimg
       [name |-> <<108, 115, 113, 98>>, chars |-> <<91>>, bare |-> FALSE],  \* lsqb
       [name |-> <<108, 115, 113, 117, 111>>, chars |-> <<8216>>, bare |-> FALSE],  \* lsquo
       [name |-> <<108, 115, 113, 117, 111, 114>>, chars |-> <<8218>>, bare |-> FALSE],  \* lsquor
       [name |-> <<108, 115, 116, 114, 111, 107>>, chars |-> <<322>>, bare |-> FALSE],  \* lstrok
       [name |-> <<108, 116>>, chars |-> <<60>>, bare |-> TRUE],  \* lt
       [name |-> <<108, 116, 99, 99>>, chars |-> <<10918>>, bare |-> FALSE],  \* ltcc
       [name |-> <<108, 116, 99, 105, 114>>, chars |-> <<10873>>, bare |-> FALSE],  \* ltcir
       [name |-> <<108, 116, 100, 111, 116>>, chars |-> <<8918>>, bare |-> FALSE],  \* ltdot
       [name |-> <<108, 116, 104, 114, 101, 101>>, chars |-> <<8907>>, bare |-> FALSE],  \* lthree
       [name |-> <<108, 116, 105, 109, 101, 115>>, chars |-> <<8905>>, bare |-> FALSE],  \* ltimes
       [name |-> <<108, 116, 108, 97, 114, 114>>, chars |-> <<10614>>, bare |-> FALSE],  \* ltlarr
       [name |-> <<108, 116, 113, 117, 101, 115, 116>>, chars |-> <<10875>>, bare |-> FALSE],  \* ltquest
       [name |-> <<108, 116, 114, 80, 97, 114>>, chars |-> <<10646>>, bare |-> FALSE],  \* ltrPar
       [name |-> <<108, 116, 114, 105>>, chars |-> <<9667>>, bare |-> FALSE],  \* ltri
       [name |-> <<108, 116, 114, 105, 101>>, chars |-> <<8884>>, bare |-> FALSE],  \* ltrie
       [name |-> <<108, 116, 114, 105, 102>>, chars |-> <<9666>>, bare |-> FALSE],  \* ltrif
       [name |-> <<108, 117, 114, 100, 115, 104, 97, 114>>, chars |-> <<10570>>, bare |-> FALSE],  \* lurdshar
       [name |-> <<108, 117, 114, 117, 104, 97, 114>>, chars |-> <<10598>>, bare |-> FALSE],  \* luruhar
       [name |-> <<108, 118, 101, 114, 116, 110, 101, 113, 113>>, chars |-> <<8808, 65024>>, bare |-> FALSE],  \* lvertneqq
       [name |-> <<108, 118, 110, 69>>, chars |-> <<8808, 65024>>, bare |-> FALSE],  \* lvnE
       [name |-> <<109, 68, 68, 111, 116>>, chars |-> <<8762>>, bare |-> FALSE],  \* mDDot
       [name |-> <<109, 97, 99, 114>>, chars |-> <<175>>, bare |-> TRUE],  \* macr
       [name |-> <<109, 97, 108, 101>>, chars |-> <<9794>>, bare |-> FALSE],  \* male
       [name |-> <<109, 97, 108, 116>>, chars |-> <<10016>>, bare |-> FALSE],  \* malt
       [name |-> <<109, 97, 108, 116, 101, 115, 101>>, chars |-> <<10016>>, bare |-> FALSE],  \* maltese
       [name |-> <<109, 97, 112>>, chars |-> <<8614>>, bare |-> FALSE],  \* map
       [name |-> <<109, 97, 112, 115, 116, 111>>, chars |-> <<8614>>, bare |-> FALSE],  \* mapsto
       [name |-> <<109, 97, 112, 115, 116, 111, 100, 111, 119, 110>>, chars |-> <<8615>>, bare |-> FALSE],  \* mapstodown
       [name |-> <<109, 97, 112, 115, 116, 111, 108, 101, 102, 116>>, chars |-> <<8612>>, bare |-> FALSE],  \* mapstoleft
       [name |-> <<109, 97, 112, 115, 116, 111, 117, 112>>, chars |-> <<8613>>, bare |-> FALSE],  \* mapstoup
       [name |-> <<109, 97, 114, 107, 101, 114>>, chars |-> <<9646>>, bare |-> FALSE],  \* marker
       [name |-> <<109, 99, 111, 109, 109, 97>>, chars |-> <<10793>>, bare |-> FALSE],  \* mcomma
       [name |-> <<109, 99, 121>>, chars |-> <<1084>>, bare |-> FALSE],  \* mcy
       [name |-> <<109, 100, 97, 115, 104>>, chars |-> <<8212>>, bare |-> FALSE],  \* mdash
       [name |-> <<109, 101, 97, 115, 117, 114, 101, 100, 97, 110, 103, 108, 101>>, chars |-> <<8737>>, bare |-> FALSE],  \* measuredangle
       [name |-> <<109, 102, 114>>, chars |-> <<120106>>, bare |-> FALSE],  \* mfr
       [name |-> <<109, 104, 111>>, chars |-> <<8487>>, bare |-> FALSE],  \* mho
       [name |-> <<109, 105, 99, 114, 111>>, chars |-> <<181>>, bare |-> TRUE],  \* micro
       [name |-> <<109, 105, 100>>, chars |-> <<8739>>, bare |-> FALSE],  \* mid
       [name |-> <<109, 105, 100, 97, 115, 116>>, chars |-> <<42>>, bare |-> FALSE],  \* midast
       [name |-> <<109, 105, 100, 99, 105, 114>>, chars |-> <<10992>>, bare |-> FALSE],  \* midcir
       [name |-> <<109, 105, 100, 100, 111, 116>>, chars |-> <<183>>, bare |-> TRUE],  \* middot
       [name |-> <<109, 105, 110, 117, 115>>, chars |-> <<8722>>, bare |-> FALSE],  \* minus
       [name |-> <<109, 105, 110, 117, 115, 98>>, chars |-> <<8863>>, bare |-> FALSE],  \* minusb
       [name |-> <<109, 105, 110, 117, 115, 100>>, chars |-> <<8760>>, bare |-> FALSE],  \* minusd
       [name |-> <<109, 105, 110, 117, 115, 100, 117>>, chars |-> <<10794>>, bare |-> FALSE],  \* minusdu
       [name |-> <<109, 108, 99, 112>>, chars |-> <<10971>>, bare |-> FALSE],  \* mlcp
       [name |-> <<109, 108, 100, 114>>, chars |-> <<8230>>, bare |-> FALSE],  \* mldr
       [name |-> <<109, 110, 112, 108, 117, 115>>, chars |-> <<8723>>, bare |-> FALSE],  \* mnplus
       [name |-> <<109, 111, 100, 101, 108, 115>>, chars |-> <<8871>>, bare |-> FALSE],  \* models
       [name |-> <<109, 111, 112, 102>>, chars |-> <<120158>>, bare |-> FALSE],  \* mopf
       [name |-> <<109, 112>>, chars |-> <<8723>>, bare |-> FALSE],  \* mp
       [name |-> <<109, 115, 99, 114>>, chars |-> <<120002>>, bare |-> FALSE],  \* mscr
       [name |-> <<109, 115, 116, 112, 111, 115>>, chars |-> <<8766>>, bare |-> FALSE],  \* mstpos
       [name |-> <<109, 117>>, chars |-> <<956>>, bare |-> FALSE],  \* mu
       [name |-> <<109, 117, 108, 116, 105, 109, 97, 112>>, chars |-> <<8888>>, bare |-> FALSE],  \* multimap
       [name |-> <<109, 117, 109, 97, 112>>, chars |-> <<8888>>, bare |-> FALSE],  \* mumap
       [name |-> <<110, 71, 103>>, chars |-> <<8921, 824>>, bare |-> FALSE],  \* nGg
       [name |-> <<110, 71, 116>>, chars |-> <<8811, 8402>>, bare |-> FALSE],  \* nGt
       [name |-> <<110, 71, 116, 118>>, chars |-> <<8811, 824>>, bare |-> FALSE],  \* nGtv
       [name |-> <<110, 76, 101, 102, 116, 97, 114, 114, 111, 119>>, chars |-> <<8653>>, bare |-> FALSE],  \* nLeftarrow
       [name |-> <<110, 76, 101, 102, 116, 114, 105, 103, 104, 116, 97, 114, 114, 111, 119>>, chars |-> <<8654>>, bare |-> FALSE],  \* nLeftrightarrow
       [name |-> <<110, 76, 108>>, chars |-> <<8920, 824>>, bare |-> FALSE],  \* nLl
       [name |-> <<110, 76, 116>>, chars |-> <<8810, 8402>>, bare |-> FALSE],  \* nLt
       [name |-> <<110, 76, 116, 118>>, chars |-> <<8810, 824>>, bare |-> FALSE],  \* nLtv
       [name |-> <<110, 82, 105, 103, 104, 116, 97, 114, 114, 111, 119>>, chars |-> <<8655>>, bare |-> FALSE],  \* nRightarrow
       [name |-> <<110, 86, 68, 97, 115, 104>>, chars |-> <<8879>>, bare |-> FALSE],  \* nVDash
       [name |-> <<110, 86, 100, 97, 115, 104>>, chars |-> <<8878>>, bare |-> FALSE],  \* nVdash
       [name |-> <<110, 97, 98, 108, 97>>, chars |-> <<8711>>, bare |-> FALSE],  \* nabla
       [name |-> <<110, 97, 99, 117, 116, 101>>, chars |-> <<324>>, bare |-> FALSE],  \* nacute
       [name |-> <<110, 97, 110, 103>>, chars |-> <<8736, 8402>>, bare |-> FALSE],  \* nang
       [name |-> <<110, 97, 112>>, chars |-> <<8777>>, bare |-> FALSE],  \* nap
       [name |-> <<110, 97, 112, 69>>, chars |-> <<10864, 824>>, bare |-> FALSE],  \* napE
       [name |-> <<110, 97, 112, 105, 100>>, chars |-> <<8779, 824>>, bare |-> FALSE],  \* napid
       [name |-> <<110, 97, 112, 111, 115>>, chars |-> <<329>>, bare |-> FALSE],  \* napos
       [name |-> <<110, 97, 112, 112, 114, 111, 120>>, chars |-> <<8777>>, bare |-> FALSE],  \* napprox
       [name |-> <<110, 97, 116, 117, 114>>, chars |-> <<9838>>, bare |-> FALSE],  \* natur
       [name |-> <<110, 97, 116, 117, 114, 97, 108>>, chars |-> <<9838>>, bare |-> FALSE],  \* natural
       [name |-> <<110, 97, 116, 117, 114, 97, 108, 115>>, chars |-> <<8469>>, bare |-> FALSE],  \* naturals
       [name |-> <<110, 98, 115, 112>>, chars |-> <<160>>, bare |-> TRUE],  \* nbsp
       [name |-> <<110, 98, 117, 109, 112>>, chars |-> <<8782, 824>>, bare |-> FALSE],  \* nbump
       [name |-> <<110, 98, 117, 109, 112, 101>>, chars |-> <<8783, 824>>, bare |-> FALSE],  \* nbumpe
       [name |-> <<110, 99, 97, 112>>, chars |-> <<10819>>, bare |-> FALSE],  \* ncap
       [name |-> <<110, 99, 97, 114, 111, 110>>, chars |-> <<328>>, bare |-> FALSE],  \* ncaron
       [name |-> <<110, 99, 101, 100, 105, 108>>, chars |-> <<326>>, bare |-> FALSE],  \* ncedil
       [name |-> <<110, 99, 111, 110, 103>>, chars |-> <<8775>>, bare |-> FALSE],  \* ncong
       [name |-> <<110, 99, 111, 110, 103, 100, 111, 116>>, chars |-> <<10861, 824>>, bare |-> FALSE],  \* ncongdot
       [name |-> <<110, 99, 117, 112>>, chars |-> <<10818>>, bare |-> FALSE],  \* ncup
       [name |-> <<110, 99, 121>>, chars |-> <<1085>>, bare |-> FALSE],  \* ncy
       [name |-> <<110, 100, 97, 115, 104>>, chars |-> <<8211>>, bare |-> FALSE],  \* ndash
       [name |-> <<110, 101>>, chars |-> <<8800>>, bare |-> FALSE],  \* ne
       [name |-> <<110, 101, 65, 114, 114>>, chars |-> <<8663>>, bare |-> FALSE],  \* neArr
       [name |-> <<110, 101, 97, 114, 104, 107>>, chars |-> <<10532>>, bare |-> FALSE],  \* nearhk
       [name |-> <<110, 101, 97, 114, 114>>, chars |-> <<8599>>, bare |-> FALSE],  \* nearr
       [name |-> <<110, 101, 97, 114, 114, 111, 119>>, chars |-> <<8599>>, bare |-> FALSE],  \* nearrow
       [name |-> <<110, 101, 100, 111, 116>>, chars |-> <<8784, 824>>, bare |-> FALSE],  \* nedot
       [name |-> <<110, 101, 113, 117, 105, 118>>, chars |-> <<8802>>, bare |-> FALSE],  \* nequiv
       [name |-> <<110, 101, 115, 101, 97, 114>>, chars |-> <<10536>>, bare |-> FALSE],  \* nesear
       [name |-> <<110, 101, 115, 105, 109>>, chars |-> <<8770, 824>>, bare |-> FALSE],  \* nesim
       [name |-> <<110, 101, 120, 105, 115, 116>>, chars |-> <<8708>>, bare |-> FALSE],  \* nexist
       [name |-> <<110, 101, 120, 105, 115, 116, 115>>, chars |-> <<8708>>, bare |-> FALSE],  \* nexists
       [name |-> <<110, 102, 114>>, chars |-> <<120107>>, bare |-> FALSE],  \* nfr
       [name |-> <<110, 103, 69>>, chars |-> <<8807, 824>>, bare |-> FALSE],  \* ngE
       [name |-> <<110, 103, 101>>, chars |-> <<8817>>, bare |-> FALSE],  \* nge
       [name |-> <<110, 103, 101, 113>>, chars |-> <<8817>>, bare |-> FALSE],  \* ngeq
       [name |-> <<110, 103, 101, 113, 113>>, chars |-> <<8807, 824>>, bare |-> FALSE],  \* ngeqq
       [name |-> <<110, 103, 101, 113, 115, 108, 97, 110, 116>>, chars |-> <<10878, 824>>, bare |-> FALSE],  \* ngeqslant
       [name |-> <<110, 103, 101, 115>>, chars |-> <<10878, 824>>, bare |-> FALSE],  \* nges
       [name |-> <<110, 103, 115, 105, 109>>, chars |-> <<8821>>, bare |-> FALSE],  \* ngsim
       [name |-> <<110, 103, 116>>, chars |-> <<8815>>, bare |-> FALSE],  \* ngt
       [name |-> <<110, 103, 116, 114>>, chars |-> <<8815>>, bare |-> FALSE],  \* ngtr
       [name |-> <<110, 104, 65, 114, 114>>, chars |-> <<8654>>, bare |-> FALSE],  \* nhArr
       [name |-> <<110, 104, 97, 114, 114>>, chars |-> <<8622>>, bare |-> FALSE],  \* nharr
       [name |-> <<110, 104, 112, 97, 114>>, chars |-> <<10994>>, bare |-> FALSE],  \* nhpar
       [name |-> <<110, 105>>, chars |-> <<8715>>, bare |-> FALSE],  \* ni
       [name |-> <<110, 105, 115>>, chars |-> <<8956>>, bare |-> FALSE],  \* nis
       [name |-> <<110, 105, 115, 100>>, chars |-> <<8954>>, bare |-> FALSE],  \* nisd
       [name |-> <<110, 105, 118>>, chars |-> <<8715>>, bare |-> FALSE],  \* niv
       [name |-> <<110, 106, 99, 121>>, chars |-> <<1114>>, bare |-> FALSE],  \* njcy
       [name |-> <<110, 108, 65, 114, 114>>, chars |-> <<8653>>, bare |-> FALSE],  \* nlArr
       [name |-> <<110, 108, 69>>, chars |-> <<8806, 824>>, bare |-> FALSE],  \* nlE
       [name |-> <<110, 108, 97, 114, 114>>, chars |-> <<8602>>, bare |-> FALSE],  \* nlarr
       [name |-> <<110, 108, 100, 114>>, chars |-> <<8229>>, bare |-> FALSE],  \* nldr
       [name |-> <<110, 108, 101>>, chars |-> <<8816>>, bare |-> FALSE],  \* nle
       [name |-> <<110, 108, 101, 102, 116, 97, 114, 114, 111, 119>>, chars |-> <<8602>>, bare |-> FALSE],  \* nleftarrow
       [name |-> <<110, 108, 101, 102, 116, 114, 105, 103, 104, 116, 97, 114, 114, 111, 119>>, chars |-> <<8622>>, bare |-> FALSE],  \* nleftrightarrow
       [name |-> <<110, 108, 101, 113>>, chars |-> <<8816>>, bare |-> FALSE],  \* nleq
       [name |-> <<110, 108, 101, 113, 113>>, chars |-> <<8806, 824>>, bare |-> FALSE],  \* nleqq
       [name |-> <<110, 108, 101, 113, 115, 108, 97, 110, 116>>, chars |-> <<10877, 824>>, bare |-> FALSE],  \* nleqslant
       [name |-> <<110, 108, 101, 115>>, chars |-> <<10877, 824>>, bare |-> FALSE],  \* nles
       [name |-> <<110, 108, 101, 115, 115>>, chars |-> <<8814>>, bare |-> FALSE],  \* nless
       [name |-> <<110, 108, 115, 105, 109>>, chars |-> <<8820>>, bare |-> FALSE],  \* nlsim
       [name |-> <<110, 108, 116>>, chars |-> <<8814>>, bare |-> FALSE],  \* nlt
       [name |-> <<110, 108, 116, 114, 105>>, chars |-> <<8938>>, bare |-> FALSE],  \* nltri
       [name |-> <<110, 108, 116, 114, 105, 101>>, chars |-> <<8940>>, bare |-> FALSE],  \* nltrie
       [name |-> <<110, 109, 105, 100>>, chars |-> <<8740>>, bare |-> FALSE],  \* nmid
       [name |-> <<110, 111, 112, 102>>, chars |-> <<120159>>, bare |-> FALSE],  \* nopf
       [name |-> <<110, 111, 116>>, chars |-> <<172>>, bare |-> TRUE],  \* not
       [name |-> <<110, 111, 116, 105, 110>>, chars |-> <<8713>>, bare |-> FALSE],  \* notin
       [name |-> <<110, 111, 116, 105, 110, 69>>, chars |-> <<8953, 824>>, bare |-> FALSE],  \* notinE
       [name |-> <<110, 111, 116, 105, 110, 100, 111, 116>>, chars |-> <<8949, 824>>, bare |-> FALSE],  \* notindot
       [name |-> <<110, 111, 116, 105, 110, 118, 97>>, chars |-> <<8713>>, bare |-> FALSE],  \* notinva
       [name |-> <<110, 111, 116, 105, 110, 118, 98>>, chars |-> <<8951>>, bare |-> FALSE],  \* notinvb
       [name |-> <<110, 111, 116, 105, 110, 118, 99>>, chars |-> <<8950>>, bare |-> FALSE],  \* notinvc
       [name |-> <<110, 111, 116, 110, 105>>, chars |-> <<8716>>, bare |-> FALSE],  \* notni
       [name |-> <<110, 111, 116, 110, 105, 118, 97>>, chars |-> <<8716>>, bare |-> FALSE],  \* notniva
       [name |-> <<110, 111, 116, 110, 105, 118, 98>>, chars |-> <<8958>>, bare |-> FALSE],  \* notnivb
       [name |-> <<110, 111, 116, 110, 105, 118, 99>>, chars |-> <<8957>>, bare |-> FALSE],  \* notnivc
       [name |-> <<110, 112, 97, 114>>, chars |-> <<8742>>, bare |-> FALSE],  \* npar
       [name |-> <<110, 112, 97, 114, 97, 108, 108, 101, 108>>, chars |-> <<8742>>, bare |-> FALSE],  \* nparallel
       [name |-> <<110, 112, 97, 114, 115, 108>>, chars |-> <<11005, 8421>>, bare |-> FALSE],  \* nparsl
       [name |-> <<110, 112, 97, 114, 116>>, chars |-> <<8706, 824>>, bare |-> FALSE],  \* npart
       [name |-> <<110, 112, 111, 108, 105, 110, 116>>, chars |-> <<10772>>, bare |-> FALSE],  \* npolint
       [name |-> <<110, 112, 114>>, chars |-> <<8832>>, bare |-> FALSE],  \* npr
       [name |-> <<110, 112, 114, 99, 117, 101>>, chars |-> <<8928>>, bare |-> FALSE],  \* nprcue
       [name |-> <<110, 112, 114, 101>>, chars |-> <<10927, 824>>, bare |-> FALSE],  \* npre
       [name |-> <<110, 112, 114, 101, 99>>, chars |-> <<8832>>, bare |-> FALSE],  \* nprec
       [name |-> <<110, 112, 114, 101, 99, 101, 113>>, chars |-> <<10927, 824>>, bare |-> FALSE],  \* npreceq
       [name |-> <<110, 114, 65, 114, 114>>, chars |-> <<8655>>, bare |-> FALSE],  \* nrArr
       [name |-> <<110, 114, 97, 114, 114>>, chars |-> <<8603>>, bare |-> FALSE],  \* nrarr
       [name |-> <<110, 114, 97, 114, 114, 99>>, chars |-> <<10547, 824>>, bare |-> FALSE],  \* nrarrc
       [name |-> <<110, 114, 97, 114, 114, 119>>, chars |-> <<8605, 824>>, bare |-> FALSE],  \* nrarrw
       [name |-> <<110, 114, 105, 103, 104, 116, 97, 114, 114, 111, 119>>, chars |-> <<8603>>, bare |-> FALSE],  \* nrightarrow
       [name |-> <<110, 114, 116, 114, 105>>, chars |-> <<8939>>, bare |-> FALSE],  \* nrtri
       [name |-> <<110, 114, 116, 114, 105, 101>>, chars |-> <<8941>>, bare |-> FALSE],  \* nrtrie
       [name |-> <<110, 115, 99>>, chars |-> <<8833>>, bare |-> FALSE],  \* nsc
       [name |-> <<110, 115, 99, 99, 117, 101>>, chars |-> <<8929>>, bare |-> FALSE],  \* nsccue
       [name |-> <<110, 115, 99, 101>>, chars |-> <<10928, 824>>, bare |-> FALSE],  \* nsce
       [name |-> <<110, 115, 99, 114>>, chars |-> <<120003>>, bare |-> FALSE],  \* nscr
       [name |-> <<110, 115, 104, 111, 114, 116, 109, 105, 100>>, chars |-> <<8740>>, bare |-> FALSE],  \* nshortmid
       [name |-> <<110, 115, 104, 111, 114, 116, 112, 97, 114, 97, 108, 108, 101, 108>>, chars |-> <<8742>>, bare |-> FALSE],  \* nshortparallel
       [name |-> <<110, 115, 105, 109>>, chars |-> <<8769>>, bare |-> FALSE],  \* nsim
       [name |-> <<110, 115, 105, 109, 101>>, chars |-> <<8772>>, bare |-> FALSE],  \* nsime
       [name |-> <<110, 115, 105, 109, 101, 113>>, chars |-> <<8772>>, bare |-> FALSE],  \* nsimeq
       [name |-> <<110, 115, 109, 105, 100>>, chars |-> <<8740>>, bare |-> FALSE],  \* nsmid
       [name |-> <<110, 115, 112, 97, 114>>, chars |-> <<8742>>, bare |-> FALSE],  \* nspar
       [name |-> <<110, 115, 113, 115, 117, 98, 101>>, chars |-> <<8930>>, bare |-> FALSE],  \* nsqsube
       [name |-> <<110, 115, 113, 115, 117, 112, 101>>, chars |-> <<8931>>, bare |-> FALSE],  \* nsqsupe
       [name |-> <<110, 115, 117, 98>>, chars |-> <<8836>>, bare |-> FALSE],  \* nsub
       [name |-> <<110, 115, 117, 98, 69>>, chars |-> <<10949, 824>>, bare |-> FALSE],  \* nsubE
       [name |-> <<110, 115, 117, 98, 101>>, chars |-> <<8840>>, bare |-> FALSE],  \* nsube
       [name |-> <<110, 115, 117, 98, 115, 101, 116>>, chars |-> <<8834, 8402>>, bare |-> FALSE],  \* nsubset
       [name |-> <<110, 115, 117, 98, 115, 101, 116, 101, 113>>, chars |-> <<8840>>, bare |-> FALSE],  \* nsubseteq
       [name |-> <<110, 115, 117, 98, 115, 101, 116, 101, 113, 113>>, chars |-> <<10949, 824>>, bare |-> FALSE],  \* nsubseteqq
       [name |-> <<110, 115, 117, 99, 99>>, chars |-> <<8833>>, bare |-> FALSE],  \* nsucc
       [name |-> <<110, 115, 117, 99, 99, 101, 113>>, chars |-> <<10928, 824>>, bare |-> FALSE],  \* nsucceq
       [name |-> <<110, 115, 117, 112>>, chars |-> <<8837>>, bare |-> FALSE],  \* nsup
       [name |-> <<110, 115, 117, 112, 69>>, chars |-> <<10950, 824>>, bare |-> FALSE],  \* nsupE
       [name |-> <<110, 115, 117, 112, 101>>, chars |-> <<8841>>, bare |-> FALSE],  \* nsupe
       [name |-> <<110, 115, 117, 112, 115, 101, 116>>, chars |-> <<8835, 8402>>, bare |-> FALSE],  \* nsupset
       [name |-> <<110, 115, 117, 112, 115, 101, 116, 101, 113>>, chars |-> <<8841>>, bare |-> FALSE],  \* nsupseteq
       [name |-> <<110, 115, 117, 112, 115, 101, 116, 101, 113, 113>>, chars |-> <<10950, 824>>, bare |-> FALSE],  \* nsupseteqq
       [name |-> <<110, 116, 103, 108>>, chars |-> <<8825>>, bare |-> FALSE],  \* ntgl
       [name |-> <<110, 116, 105, 108, 100, 101>>, chars |-> <<241>>, bare |-> TRUE],  \* ntilde
       [name |-> <<110, 116, 108, 103>>, chars |-> <<8824>>, bare |-> FALSE],  \* ntlg
       [name |-> <<110, 116, 114, 105, 97, 110, 103, 108, 101, 108, 101, 102, 116>>, chars |-> <<8938>>, bare |-> FALSE],  \* ntriangleleft
       [name |-> <<110, 116, 114, 105, 97, 110, 103, 108, 101, 108, 101, 102, 116, 101, 113>>, chars |-> <<8940>>, bare |-> FALSE],  \* ntrianglelefteq
       [name |-> <<110, 116, 114, 105, 97, 110, 103, 108, 101, 114, 105, 103, 104, 116>>, chars |-> <<8939>>, bare |-> FALSE],  \* ntriangleright
       [name |-> <<110, 116, 114, 105, 97, 110, 103, 108, 101, 114, 105, 103, 104, 116, 101, 113>>, chars |-> <<8941>>, bare |-> FALSE],  \* ntrianglerighteq
       [name |-> <<110, 117>>, chars |-> <<957>>, bare |-> FALSE],  \* nu
       [name |-> <<110, 117, 109>>, chars |-> <<35>>, bare |-> FALSE],  \* num
       [name |-> <<110, 117, 109, 101, 114, 111>>, chars |-> <<8470>>, bare |-> FALSE],  \* numero
       [name |-> <<110, 117, 109, 115, 112>>, chars |-> <<8199>>, bare |-> FALSE],  \* numsp
       [name |-> <<110, 118, 68, 97, 115, 104>>, chars |-> <<8877>>, bare |-> FALSE],  \* nvDash
       [name |-> <<110, 118, 72, 97, 114, 114>>, chars |-> <<10500>>, bare |-> FALSE],  \* nvHarr
       [name |-> <<110, 118, 97, 112>>, chars |-> <<8781, 8402>>, bare |-> FALSE],  \* nvap
       [name |-> <<110, 118, 100, 97, 115, 104>>, chars |-> <<8876>>, bare |-> FALSE],  \* nvdash
       [name |-> <<110, 118, 103, 101>>, chars |-> <<8805, 8402>>, bare |-> FALSE],  \* nvge
       [name |-> <<110, 118, 103, 116>>, chars |-> <<62, 8402>>, bare |-> FALSE],  \* nvgt
       [name |-> <<110, 118, 105, 110, 102, 105, 110>>, chars |-> <<10718>>, bare |-> FALSE],  \* nvinfin
       [name |-> <<110, 118, 108, 65, 114, 114>>, chars |-> <<10498>>, bare |-> FALSE],  \* nvlArr
       [name |-> <<110, 118, 108, 101>>, chars |-> <<8804, 8402>>, bare |-> FALSE],  \* nvle
       [name |-> <<110, 118, 108, 116>>, chars |-> <<60, 8402>>, bare |-> FALSE],  \* nvlt
       [name |-> <<110, 118, 108, 116, 114, 105, 101>>, chars |-> <<8884, 8402>>, bare |-> FALSE],  \* nvltrie
       [name |-> <<110, 118, 114, 65, 114, 114>>, chars |-> <<10499>>, bare |-> FALSE],  \* nvrArr
       [name |-> <<110, 118, 114, 116, 114, 105, 101>>, chars |-> <<8885, 8402>>, bare |-> FALSE],  \* nvrtrie
       [name |-> <<110, 118, 115, 105, 109>>, chars |-> <<8764, 8402>>, bare |-> FALSE],  \* nvsim
       [name |-> <<110, 119, 65, 114, 114>>, chars |-> <<8662>>, bare |-> FALSE],  \* nwArr
       [name |-> <<110, 119, 97, 114, 104, 107>>, chars |-> <<10531>>, bare |-> FALSE],  \* nwarhk
       [name |-> <<110, 119, 97, 114, 114>>, chars |-> <<8598>>, bare |-> FALSE],  \* nwarr
       [name |-> <<110, 119, 97, 114, 114, 111, 119>>, chars |-> <<8598>>, bare |-> FALSE],  \* nwarrow
       [name |-> <<110, 119, 110, 101, 97, 114>>, chars |-> <<10535>>, bare |-> FALSE],  \* nwnear
       [name |-> <<111, 83>>, chars |-> <<9416>>, bare |-> FALSE],  \* oS
       [name |-> <<111, 97, 99, 117, 116, 101>>, chars |-> <<243>>, bare |-> TRUE],  \* oacute
       [name |-> <<111, 97, 115, 116>>, chars |-> <<8859>>, bare |-> FALSE],  \* oast
       [name |-> <<111, 99, 105, 114>>, chars |-> <<8858>>, bare |-> FALSE],  \* ocir
       [name |-> <<111, 99, 105, 114, 99>>, chars |-> <<244>>, bare |-> TRUE],  \* ocirc
       [name |-> <<111, 99, 121>>, chars |-> <<1086>>, bare |-> FALSE],  \* ocy
       [name |-> <<111, 100, 97, 115, 104>>, chars |-> <<8861>>, bare |-> FALSE],  \* odash
       [name |-> <<111, 100, 98, 108, 97, 99>>, chars |-> <<337>>, bare |-> FALSE],  \* odblac
       [name |-> <<111, 100, 105, 118>>, chars |-> <<10808>>, bare |-> FALSE],  \* odiv
       [name |-> <<111, 100, 111, 116>>, chars |-> <<8857>>, bare |-> FALSE],  \* odot
       [name |-> <<111, 100, 115, 111, 108, 100>>, chars |-> <<10684>>, bare |-> FALSE],  \* odsold
       [name |-> <<111, 101, 108, 105, 103>>, chars |-> <<339>>, bare |-> FALSE],  \* oelig
       [name |-> <<111, 102, 99, 105, 114>>, chars |-> <<10687>>, bare |-> FALSE],  \* ofcir
       [name |-> <<111, 102, 114>>, chars |-> <<120108>>, bare |-> FALSE],  \* ofr
       [name |-> <<111, 103, 111, 110>>, chars |-> <<731>>, bare |-> FALSE],  \* ogon
       [name |-> <<111, 103, 114, 97, 118, 101>>, chars |-> <<242>>, bare |-> TRUE],  \* ograve
       [name |-> <<111, 103, 116>>, chars |-> <<10689>>, bare |-> FALSE],  \* ogt
       [name |-> <<111, 104, 98, 97, 114>>, chars |-> <<10677>>, bare |-> FALSE],  \* ohbar
       [name |-> <<111, 104, 109>>, chars |-> <<937>>, bare |-> FALSE],  \* ohm
       [name |-> <<111, 105, 110, 116>>, chars |-> <<8750>>, bare |-> FALSE],  \* oint
       [name |-> <<111, 108, 97, 114, 114>>, chars |-> <<8634>>, bare |-> FALSE],  \* olarr
       [name |-> <<111, 108, 99, 105, 114>>, chars |-> <<10686>>, bare |-> FALSE],  \* olcir
       [name |-> <<111, 108, 99, 114, 111, 115, 115>>, chars |-> <<10683>>, bare |-> FALSE],  \* olcross
       [name |-> <<111, 108, 105, 110, 101>>, chars |-> <<8254>>, bare |-> FALSE],  \* oline
       [name |-> <<111, 108, 116>>, chars |-> <<10688>>, bare |-> FALSE],  \* olt
       [name |-> <<111, 109, 97, 99, 114>>, chars |-> <<333>>, bare |-> FALSE],  \* omacr
       [name |-> <<111, 109, 101, 103, 97>>, chars |-> <<969>>, bare |-> FALSE],  \* omega
       [name |-> <<111, 109, 105, 99, 114, 111, 110>>, chars |-> <<959>>, bare |-> FALSE],  \* omicron
       [name |-> <<111, 109, 105, 100>>, chars |-> <<10678>>, bare |-> FALSE],  \* omid
       [name |-> <<111, 109, 105, 110, 117, 115>>, chars |-> <<8854>>, bare |-> FALSE],  \* ominus
       [name |-> <<111, 111, 112, 102>>, chars |-> <<120160>>, bare |-> FALSE],  \* oopf
       [name |-> <<111, 112, 97, 114>>, chars |-> <<10679>>, bare |-> FALSE],  \* opar
       [name |-> <<111, 112, 101, 114, 112>>, chars |-> <<10681>>, bare |-> FALSE],  \* operp
       [name |-> <<111, 112, 108, 117, 115>>, chars |-> <<8853>>, bare |-> FALSE],  \* oplus
       [name |-> <<111, 114>>, chars |-> <<8744>>, bare |-> FALSE],  \* or
       [name |-> <<111, 114, 97, 114, 114>>, chars |-> <<8635>>, bare |-> FALSE],  \* orarr
       [name |-> <<111, 114, 100>>, chars |-> <<10845>>, bare |-> FALSE],  \* ord
       [name |-> <<111, 114, 100, 101, 114>>, chars |-> <<8500>>, bare |-> FALSE],  \* order
       [name |-> <<111, 114, 100, 101, 114, 111, 102>>, chars |-> <<8500>>, bare |-> FALSE],  \* orderof
       [name |-> <<111, 114, 100, 102>>, chars |-> <<170>>, bare |-> TRUE],  \* ordf
       [name |-> <<111, 114, 100, 109>>, chars |-> <<186>>, bare |-> TRUE],  \* ordm
       [name |-> <<111, 114, 105, 103, 111, 102>>, chars |-> <<8886>>, bare |-> FALSE],  \* origof
       [name |-> <<111, 114, 111, 114>>, chars |-> <<10838>>, bare |-> FALSE],  \* oror
       [name |-> <<111, 114, 115, 108, 111, 112, 101>>, chars |-> <<10839>>, bare |-> FALSE],  \* orslope
       [name |-> <<111, 114, 118>>, chars |-> <<10843>>, bare |-> FALSE],  \* orv
       [name |-> <<111, 115, 99, 114>>, chars |-> <<8500>>, bare |-> FALSE],  \* oscr
       [name |-> <<111, 115, 108, 97, 115, 104>>, chars |-> <<248>>, bare |-> TRUE],  \* oslash
       [name |-> <<111, 115, 111, 108>>, chars |-> <<8856>>, bare |-> FALSE],  \* osol
       [name |-> <<111, 116, 105, 108, 100, 101>>, chars |-> <<245>>, bare |-> TRUE],  \* otilde
       [name |-> <<111, 116, 105, 109, 101, 115>>, chars |-> <<8855>>, bare |-> FALSE],  \* otimes
       [name |-> <<111, 116, 105, 109, 101, 115, 97, 115>>, chars |-> <<10806>>, bare |-> FALSE],  \* otimesas
       [name |-> <<111, 117, 109, 108>>, chars |-> <<246>>, bare |-> TRUE],  \* ouml
       [name |-> <<111, 118, 98, 97, 114>>, chars |-> <<9021>>, bare |-> FALSE],  \* ovbar
       [name |-> <<112, 97, 114>>, chars |-> <<8741>>, bare |-> FALSE],  \* par
       [name |-> <<112, 97, 114, 97>>, chars |-> <<182>>, bare |-> TRUE],  \* para
       [name |-> <<112, 97, 114, 97, 108, 108, 101, 108>>, chars |-> <<8741>>, bare |-> FALSE],  \* parallel
       [name |-> <<112, 97, 114, 115, 105, 109>>, chars |-> <<10995>>, bare |-> FALSE],  \* parsim
       [name |-> <<112, 97, 114, 115, 108>>, chars |-> <<11005>>, bare |-> FALSE],  \* parsl
       [name |-> <<112, 97, 114, 116>>, chars |-> <<8706>>, bare |-> FALSE],  \* part
       [name |-> <<112, 99, 121>>, chars |-> <<1087>>, bare |-> FALSE],  \* pcy
       [name |-> <<112, 101, 114, 99, 110, 116>>, chars |-> <<37>>, bare |-> FALSE],  \* percnt
       [name |-> <<112, 101, 114, 105, 111, 100>>, chars |-> <<46>>, bare |-> FALSE],  \* period
       [name |-> <<112, 101, 114, 109, 105, 108>>, chars |-> <<8240>>, bare |-> FALSE],  \* permil
       [name |-> <<112, 101, 114, 112>>, chars |-> <<8869>>, bare |-> FALSE],  \* perp
       [name |-> <<112, 101, 114, 116, 101, 110, 107>>, chars |-> <<8241>>, bare |-> FALSE],  \* pertenk
       [name |-> <<112, 102, 114>>, chars |-> <<120109>>, bare |-> FALSE],  \* pfr
       [name |-> <<112, 104, 105>>, chars |-> <<966>>, bare |-> FALSE],  \* phi
       [name |-> <<112, 104, 105, 118>>, chars |-> <<981>>, bare |-> FALSE],  \* phiv
       [name |-> <<112, 104, 109, 109, 97, 116>>, chars |-> <<8499>>, bare |-> FALSE],  \* phmmat
       [name |-> <<112, 104, 111, 110, 101>>, chars |-> <<9742>>, bare |-> FALSE],  \* phone
       [name |-> <<112, 105>>, chars |-> <<960>>, bare |-> FALSE],  \* pi
       [name |-> <<112, 105, 116, 99, 104, 102, 111, 114, 107>>, chars |-> <<8916>>, bare |-> FALSE],  \* pitchfork
       [name |-> <<112, 105, 118>>, chars |-> <<982>>, bare |-> FALSE],  \* piv
       [name |-> <<112, 108, 97, 110, 99, 107>>, chars |-> <<8463>>, bare |-> FALSE],  \* planck
       [name |-> <<112, 108, 97, 110, 99, 107, 104>>, chars |-> <<8462>>, bare |-> FALSE],  \* planckh
       [name |-> <<112, 108, 97, 110, 107, 118>>, chars |-> <<8463>>, bare |-> FALSE],  \* plankv
       [name |-> <<112, 108, 117, 115>>, chars |-> <<43>>, bare |-> FALSE],  \* plus
       [name |-> <<112, 108, 117, 115, 97, 99, 105, 114>>, chars |-> <<10787>>, bare |-> FALSE],  \* plusacir
       [name |-> <<112, 108, 117, 115, 98>>, chars |-> <<8862>>, bare |-> FALSE],  \* plusb
       [name |-> <<112, 108, 117, 115, 99, 105, 114>>, chars |-> <<10786>>, bare |-> FALSE],  \* pluscir
       [name |-> <<112, 108, 117, 115, 100, 111>>, chars |-> <<8724>>, bare |-> FALSE],  \* plusdo
       [name |-> <<112, 108, 117, 115, 100, 117>>, chars |-> <<10789>>, bare |-> FALSE],  \* plusdu
       [name |-> <<112, 108, 117, 115, 101>>, chars |-> <<10866>>, bare |-> FALSE],  \* pluse
       [name |-> <<112, 108, 117, 115, 109, 110>>, chars |-> <<177>>, bare |-> TRUE],  \* plusmn
       [name |-> <<112, 108, 117, 115, 115, 105, 109>>, chars |-> <<10790>>, bare |-> FALSE],  \* plussim
       [name |-> <<112, 108, 117, 115, 116, 119, 111>>, chars |-> <<10791>>, bare |-> FALSE],  \* plustwo
       [name |-> <<112, 109>>, chars |-> <<177>>, bare |-> FALSE],  \* pm
       [name |-> <<112, 111, 105, 110, 116, 105, 110, 116>>, chars |-> <<10773>>, bare |-> FALSE],  \* pointint
       [name |-> <<112, 111, 112, 102>>, chars |-> <<120161>>, bare |-> FALSE],  \* popf
       [name |-> <<112, 111, 117, 110, 100>>, chars |-> <<163>>, bare |-> TRUE],  \* pound
       [name |-> <<112, 114>>, chars |-> <<8826>>, bare |-> FALSE],  \* pr
       [name |-> <<112, 114, 69>>, chars |-> <<10931>>, bare |-> FALSE],  \* prE
       [name |-> <<112, 114, 97, 112>>, chars |-> <<10935>>, bare |-> FALSE],  \* prap
       [name |-> <<112, 114, 99, 117, 101>>, chars |-> <<8828>>, bare |-> FALSE],  \* prcue
       [name |-> <<112, 114, 101>>, chars |-> <<10927>>, bare |-> FALSE],  \* pre
       [name |-> <<112, 114, 101, 99>>, chars |-> <<8826>>, bare |-> FALSE],  \* prec
       [name |-> <<112, 114, 101, 99, 97, 112, 112, 114, 111, 120>>, chars |-> <<10935>>, bare |-> FALSE],  \* precapprox
       [name |-> <<112, 114, 101, 99, 99, 117, 114, 108, 121, 101, 113>>, chars |-> <<8828>>, bare |-> FALSE],  \* preccurlyeq
       [name |-> <<112, 114, 101, 99, 101, 113>>, chars |-> <<10927>>, bare |-> FALSE],  \* preceq
       [name |-> <<112, 114, 101, 99, 110, 97, 112, 112, 114, 111, 120>>, chars |-> <<10937>>, bare |-> FALSE],  \* precnapprox
       [name |-> <<112, 114, 101, 99, 110, 101, 113, 113>>, chars |-> <<10933>>, bare |-> FALSE],  \* precneqq
       [name |-> <<112, 114, 101, 99, 110, 115, 105, 109>>, chars |-> <<8936>>, bare |-> FALSE],  \* precnsim
       [name |-> <<112, 114, 101, 99, 115, 105, 109>>, chars |-> <<8830>>, bare |-> FALSE],  \* precsim
       [name |-> <<112, 114, 105, 109, 101>>, chars |-> <<8242>>, bare |-> FALSE],  \* prime
       [name |-> <<112, 114, 105, 109, 101, 115>>, chars |-> <<8473>>, bare |-> FALSE],  \* primes
       [name |-> <<112, 114, 110, 69>>, chars |-> <<10933>>, bare |-> FALSE],  \* prnE
       [name |-> <<112, 114, 110, 97, 112>>, chars |-> <<10937>>, bare |-> FALSE],  \* prnap
       [name |-> <<112, 114, 110, 115, 105, 109>>, chars |-> <<8936>>, bare |-> FALSE],  \* prnsim
       [name |-> <<112, 114, 111, 100>>, chars |-> <<8719>>, bare |-> FALSE],  \* prod
       [name |-> <<112, 114, 111, 102, 97, 108, 97, 114>>, chars |-> <<9006>>, bare |-> FALSE],  \* profalar
       [name |-> <<112, 114, 111, 102, 108, 105, 110, 101>>, chars |-> <<8978>>, bare |-> FALSE],  \* profline
       [name |-> <<112, 114, 111, 102, 115, 117, 114, 102>>, chars |-> <<8979>>, bare |-> FALSE],  \* profsurf
       [name |-> <<112, 114, 111, 112>>, chars |-> <<8733>>, bare |-> FALSE],  \* prop
       [name |-> <<112, 114, 111, 112, 116, 111>>, chars |-> <<8733>>, bare |-> FALSE],  \* propto
       [name |-> <<112, 114, 115, 105, 109>>, chars |-> <<8830>>, bare |-> FALSE],  \* prsim
       [name |-> <<112, 114, 117, 114, 101, 108>>, chars |-> <<8880>>, bare |-> FALSE],  \* prurel
       [name |-> <<112, 115, 99, 114>>, chars |-> <<120005>>, bare |-> FALSE],  \* pscr
       [name |-> <<112, 115, 105>>, chars |-> <<968>>, bare |-> FALSE],  \* psi
       [name |-> <<112, 117, 110, 99, 115, 112>>, chars |-> <<8200>>, bare |-> FALSE],  \* puncsp
       [name |-> <<113, 102, 114>>, chars |-> <<120110>>, bare |-> FALSE],  \* qfr
       [name |-> <<113, 105, 110, 116>>, chars |-> <<10764>>, bare |-> FALSE],  \* qint
       [name |-> <<113, 111, 112, 102>>, chars |-> <<120162>>, bare |-> FALSE],  \* qopf
       [name |-> <<113, 112, 114, 105, 109, 101>>, chars |-> <<8279>>, bare |-> FALSE],  \* qprime
       [name |-> <<113, 115, 99, 114>>, chars |-> <<120006>>, bare |-> FALSE],  \* qscr
       [name |-> <<113, 117, 97, 116, 101, 114, 110, 105, 111, 110, 115>>, chars |-> <<8461>>, bare |-> FALSE],  \* quaternions
       [name |-> <<113, 117, 97, 116, 105, 110, 116>>, chars |-> <<10774>>, bare |-> FALSE],  \* quatint
       [name |-> <<113, 117, 101, 115, 116>>, chars |-> <<63>>, bare |-> FALSE],  \* quest
       [name |-> <<113, 117, 101, 115, 116, 101, 113>>, chars |-> <<8799>>, bare |-> FALSE],  \* questeq
       [name |-> <<113, 117, 111, 116>>, chars |-> <<34>>, bare |-> TRUE],  \* quot
       [name |-> <<114, 65, 97, 114, 114>>, chars |-> <<8667>>, bare |-> FALSE],  \* rAarr
       [name |-> <<114, 65, 114, 114>>, chars |-> <<8658>>, bare |-> FALSE],  \* rArr
       [name |-> <<114, 65, 116, 97, 105, 108>>, chars |-> <<10524>>, bare |-> FALSE],  \* rAtail
       [name |-> <<114, 66, 97, 114, 114>>, chars |-> <<10511>>, bare |-> FALSE],  \* rBarr
       [name |-> <<114, 72, 97, 114>>, chars |-> <<10596>>, bare |-> FALSE],  \* rHar
       [name |-> <<114, 97, 99, 101>>, chars |-> <<8765, 817>>, bare |-> FALSE],  \* race
       [name |-> <<114, 97, 99, 117, 116, 101>>, chars |-> <<341>>, bare |-> FALSE],  \* racute
       [name |-> <<114, 97, 100, 105, 99>>, chars |-> <<8730>>, bare |-> FALSE],  \* radic
       [name |-> <<114, 97, 101, 109, 112, 116, 121, 118>>, chars |-> <<10675>>, bare |-> FALSE],  \* raemptyv
       [name |-> <<114, 97, 110, 103>>, chars |-> <<10217>>, bare |-> FALSE],  \* rang
       [name |-> <<114, 97, 110, 103, 100>>, chars |-> <<10642>>, bare |-> FALSE],  \* rangd
       [name |-> <<114, 97, 110, 103, 101>>, chars |-> <<10661>>, bare |-> FALSE],  \* range
       [name |-> <<114, 97, 110, 103, 108, 101>>, chars |-> <<10217>>, bare |-> FALSE],  \* rangle
       [name |-> <<114, 97, 113, 117, 111>>, chars |-> <<187>>, bare |-> TRUE],  \* raquo
       [name |-> <<114, 97, 114, 114>>, chars |-> <<8594>>, bare |-> FALSE],  \* rarr
       [name |-> <<114, 97, 114, 114, 97, 112>>, chars |-> <<10613>>, bare |-> FALSE],  \* rarrap
       [name |-> <<114, 97, 114, 114, 98>>, chars |-> <<8677>>, bare |-> FALSE],  \* rarrb
       [name |-> <<114, 97, 114, 114, 98, 102, 115>>, chars |-> <<10528>>, bare |-> FALSE],  \* rarrbfs
       [name |-> <<114, 97, 114, 114, 99>>, chars |-> <<10547>>, bare |-> FALSE],  \* rarrc
       [name |-> <<114, 97, 114, 114, 102, 115>>, chars |-> <<10526>>, bare |-> FALSE],  \* rarrfs
       [name |-> <<114, 97, 114, 114, 104, 107>>, chars |-> <<8618>>, bare |-> FALSE],  \* rarrhk
       [name |-> <<114, 97, 114, 114, 108, 112>>, chars |-> <<8620>>, bare |-> FALSE],  \* rarrlp
       [name |-> <<114, 97, 114, 114, 112, 108>>, chars |-> <<10565>>, bare |-> FALSE],  \* rarrpl
       [name |-> <<114, 97, 114, 114, 115, 105, 109>>, chars |-> <<10612>>, bare |-> FALSE],  \* rarrsim
       [name |-> <<114, 97, 114, 114, 116, 108>>, chars |-> <<8611>>, bare |-> FALSE],  \* rarrtl
       [name |-> <<114, 97, 114, 114, 119>>, chars |-> <<8605>>, bare |-> FALSE],  \* rarrw
       [name |-> <<114, 97, 116, 97, 105, 108>>, chars |-> <<10522>>, bare |-> FALSE],  \* ratail
       [name |-> <<114, 97, 116, 105, 111>>, chars |-> <<8758>>, bare |-> FALSE],  \* ratio
       [name |-> <<114, 97, 116, 105, 111, 110, 97, 108, 115>>, chars |-> <<8474>>, bare |-> FALSE],  \* rationals
       [name |-> <<114, 98, 97, 114, 114>>, chars |-> <<10509>>, bare |-> FALSE],  \* rbarr
       [name |-> <<114, 98, 98, 114, 107>>, chars |-> <<10099>>, bare |-> FALSE],  \* rbbrk
       [name |-> <<114, 98, 114, 97, 99, 101>>, chars |-> <<125>>, bare |-> FALSE],  \* rbrace
       [name |-> <<114, 98, 114, 97, 99, 107>>, chars |-> <<93>>, bare |-> FALSE],  \* rbrack
       [name |-> <<114, 98, 114, 107, 101>>, chars |-> <<10636>>, bare |-> FALSE],  \* rbrke
       [name |-> <<114, 98, 114, 107, 115, 108, 100>>, chars |-> <<10638>>, bare |-> FALSE],  \* rbrksld
       [name |-> <<114, 98, 114, 107, 115, 108, 117>>, chars |-> <<10640>>, bare |-> FALSE],  \* rbrkslu
       [name |-> <<114, 99, 97, 114, 111, 110>>, chars |-> <<345>>, bare |-> FALSE],  \* rcaron
       [name |-> <<114, 99, 101, 100, 105, 108>>, chars |-> <<343>>, bare |-> FALSE],  \* rcedil
       [name |-> <<114, 99, 101, 105, 108>>, chars |-> <<8969>>, bare |-> FALSE],  \* rceil
       [name |-> <<114, 99, 117, 98>>, chars |-> <<125>>, bare |-> FALSE],  \* rcub
       [name |-> <<114, 99, 121>>, chars |-> <<1088>>, bare |-> FALSE],  \* rcy
       [name |-> <<114, 100, 99, 97>>, chars |-> <<10551>>, bare |-> FALSE],  \* rdca
       [name |-> <<114, 100, 108, 100, 104, 97, 114>>, chars |-> <<10601>>, bare |-> FALSE],  \* rdldhar
       [name |-> <<114, 100, 113, 117, 111>>, chars |-> <<8221>>, bare |-> FALSE],  \* rdquo
       [name |-> <<114, 100, 113, 117, 111, 114>>, chars |-> <<8221>>, bare |-> FALSE],  \* rdquor
       [name |-> <<114, 100, 115, 104>>, chars |-> <<8627>>, bare |-> FALSE],  \* rdsh
       [name |-> <<114, 101, 97, 108>>, chars |-> <<8476>>, bare |-> FALSE],  \* real
       [name |-> <<114, 101, 97, 108, 105, 110, 101>>, chars |-> <<8475>>, bare |-> FALSE],  \* realine
       [name |-> <<114, 101, 97, 108, 112, 97, 114, 116>>, chars |-> <<8476>>, bare |-> FALSE],  \* realpart
       [name |-> <<114, 101, 97, 108, 115>>, chars |-> <<8477>>, bare |-> FALSE],  \* reals
       [name |-> <<114, 101, 99, 116>>, chars |-> <<9645>>, bare |-> FALSE],  \* rect
       [name |-> <<114, 101, 103>>, chars |-> <<174>>, bare |-> TRUE],  \* reg
       [name |-> <<114, 102, 105, 115, 104, 116>>, chars |-> <<10621>>, bare |-> FALSE],  \* rfisht
       [name |-> <<114, 102, 108, 111, 111, 114>>, chars |-> <<8971>>, bare |-> FALSE],  \* rfloor
       [name |-> <<114, 102, 114>>, chars |-> <<120111>>, bare |-> FALSE],  \* rfr
       [name |-> <<114, 104, 97, 114, 100>>, chars |-> <<8641>>, bare |-> FALSE],  \* rhard
       [name |-> <<114, 104, 97, 114, 117>>, chars |-> <<8640>>, bare |-> FALSE],  \* rharu
       [name |-> <<114, 104, 97, 114, 117, 108>>, chars |-> <<10604>>, bare |-> FALSE],  \* rharul
       [name |-> <<114, 104, 111>>, chars |-> <<961>>, bare |-> FALSE],  \* rho
       [name |-> <<114, 104, 111, 118>>, chars |-> <<1009>>, bare |-> FALSE],  \* rhov
       [name |-> <<114, 105, 103, 104, 116, 97, 114, 114, 111, 119>>, chars |-> <<8594>>, bare |-> FALSE],  \* rightarrow
       [name |-> <<114, 105, 103, 104, 116, 97, 114, 114, 111, 119, 116, 97, 105, 108>>, chars |-> <<8611>>, bare |-> FALSE],  \* rightarrowtail
       [name |-> <<114, 105, 103, 104, 116, 104, 97, 114, 112, 111, 111, 110, 100, 111, 119, 110>>, chars |-> <<8641>>, bare |-> FALSE],  \* rightharpoondown
       [name |-> <<114, 105, 103, 104, 116, 104, 97, 114, 112, 111, 111, 110, 117, 112>>, chars |-> <<8640>>, bare |-> FALSE],  \* rightharpoonup
       [name |-> <<114, 105, 103, 104, 116, 108, 101, 102, 116, 97, 114, 114, 111, 119, 115>>, chars |-> <<8644>>, bare |-> FALSE],  \* rightleftarrows
       [name |-> <<114, 105, 103, 104, 116, 108, 101, 102, 116, 104, 97, 114, 112, 111, 111, 110, 115>>, chars |-> <<8652>>, bare |-> FALSE],  \* rightleftharpoons
       [name |-> <<114, 105, 103, 104, 116, 114, 105, 103, 104, 116, 97, 114, 114, 111, 119, 115>>, chars |-> <<8649>>, bare |-> FALSE],  \* rightrightarrows
       [name |-> <<114, 105, 103, 104, 116, 115, 113, 117, 105, 103, 97, 114, 114, 111, 119>>, chars |-> <<8605>>, bare |-> FALSE],  \* rightsquigarrow
       [name |-> <<114, 105, 103, 104, 116, 116, 104, 114, 101, 101, 116, 105, 109, 101, 115>>, chars |-> <<8908>>, bare |-> FALSE],  \* rightthreetimes
       [name |-> <<114, 105, 110, 103>>, chars |-> <<730>>, bare |-> FALSE],  \* ring
       [name |-> <<114, 105, 115, 105, 110, 103, 100, 111, 116, 115, 101, 113>>, chars |-> <<8787>>, bare |-> FALSE],  \* risingdotseq
       [name |-> <<114, 108, 97, 114, 114>>, chars |-> <<8644>>, bare |-> FALSE],  \* rlarr
       [name |-> <<114, 108, 104, 97, 114>>, chars |-> <<8652>>, bare |-> FALSE],  \* rlhar
       [name |-> <<114, 108, 109>>, chars |-> <<8207>>, bare |-> FALSE],  \* rlm
       [name |-> <<114, 109, 111, 117, 115, 116>>, chars |-> <<9137>>, bare |-> FALSE],  \* rmoust
       [name |-> <<114, 109, 111, 117, 115, 116, 97, 99, 104, 101>>, chars |-> <<9137>>, bare |-> FALSE],  \* rmoustache
       [name |-> <<114, 110, 109, 105, 100>>, chars |-> <<10990>>, bare |-> FALSE],  \* rnmid
       [name |-> <<114, 111, 97, 110, 103>>, chars |-> <<10221>>, bare |-> FALSE],  \* roang
       [name |-> <<114, 111, 97, 114, 114>>, chars |-> <<8702>>, bare |-> FALSE],  \* roarr
       [name |-> <<114, 111, 98, 114, 107>>, chars |-> <<10215>>, bare |-> FALSE],  \* robrk
       [name |-> <<114, 111, 112, 97, 114>>, chars |-> <<10630>>, bare |-> FALSE],  \* ropar
       [name |-> <<114, 111, 112, 102>>, chars |-> <<120163>>, bare |-> FALSE],  \* ropf
       [name |-> <<114, 111, 112, 108, 117, 115>>, chars |-> <<10798>>, bare |-> FALSE],  \* roplus
       [name |-> <<114, 111, 116, 105, 109, 101, 115>>, chars |-> <<10805>>, bare |-> FALSE],  \* rotimes
       [name |-> <<114, 112, 97, 114>>, chars |-> <<41>>, bare |-> FALSE],  \* rpar
       [name |-> <<114, 112, 97, 114, 103, 116>>, chars |-> <<10644>>, bare |-> FALSE],  \* rpargt
       [name |-> <<114, 112, 112, 111, 108, 105, 110, 116>>, chars |-> <<10770>>, bare |-> FALSE],  \* rppolint
       [name |-> <<114, 114, 97, 114, 114>>, chars |-> <<8649>>, bare |-> FALSE],  \* rrarr
       [name |-> <<114, 115, 97, 113, 117, 111>>, chars |-> <<8250>>, bare |-> FALSE],  \* rsaquo
       [name |-> <<114, 115, 99, 114>>, chars |-> <<120007>>, bare |-> FALSE],  \* rscr
       [name |-> <<114, 115, 104>>, chars |-> <<8625>>, bare |-> FALSE],  \* rsh
       [name |-> <<114, 115, 113, 98>>, chars |-> <<93>>, bare |-> FALSE],  \* rsqb
       [name |-> <<114, 115, 113, 117, 111>>, chars |-> <<8217>>, bare |-> FALSE],  \* rsquo
       [name |-> <<114, 115, 113, 117, 111, 114>>, chars |-> <<8217>>, bare |-> FALSE],  \* rsquor
       [name |-> <<114, 116, 104, 114, 101, 101>>, chars |-> <<8908>>, bare |-> FALSE],  \* rthree
       [name |-> <<114, 116, 105, 109, 101, 115>>, chars |-> <<8906>>, bare |-> FALSE],  \* rtimes
       [name |-> <<114, 116, 114, 105>>, chars |-> <<9657>>, bare |-> FALSE],  \* rtri
       [name |-> <<114, 116, 114, 105, 101>>, chars |-> <<8885>>, bare |-> FALSE],  \* rtrie
       [name |-> <<114, 116, 114, 105, 102>>, chars |-> <<9656>>, bare |-> FALSE],  \* rtrif
       [name |-> <<114, 116, 114, 105, 108, 116, 114, 105>>, chars |-> <<10702>>, bare |-> FALSE],  \* rtriltri
       [name |-> <<114, 117, 108, 117, 104, 97, 114>>, chars |-> <<10600>>, bare |-> FALSE],  \* ruluhar
       [name |-> <<114, 120>>, chars |-> <<8478>>, bare |-> FALSE],  \* rx
       [name |-> <<115, 97, 99, 117, 116, 101>>, chars |-> <<347>>, bare |-> FALSE],  \* sacute
       [name |-> <<115, 98, 113, 117, 111>>, chars |-> <<8218>>, bare |-> FALSE],  \* sbquo
       [name |-> <<115, 99>>, chars |-> <<8827>>, bare |-> FALSE],  \* sc
       [name |-> <<115, 99, 69>>, chars |-> <<10932>>, bare |-> FALSE],  \* scE
       [name |-> <<115, 99, 97, 112>>, chars |-> <<10936>>, bare |-> FALSE],  \* scap
       [name |-> <<115, 99, 97, 114, 111, 110>>, chars |-> <<353>>, bare |-> FALSE],  \* scaron
       [name |-> <<115, 99, 99, 117, 101>>, chars |-> <<8829>>, bare |-> FALSE],  \* sccue
       [name |-> <<115, 99, 101>>, chars |-> <<10928>>, bare |-> FALSE],  \* sce
       [name |-> <<115, 99, 101, 100, 105, 108>>, chars |-> <<351>>, bare |-> FALSE],  \* scedil
       [name |-> <<115, 99, 105, 114, 99>>, chars |-> <<349>>, bare |-> FALSE],  \* scirc
       [name |-> <<115, 99, 110, 69>>, chars |-> <<10934>>, bare |-> FALSE],  \* scnE
       [name |-> <<115, 99, 110, 97, 112>>, chars |-> <<10938>>, bare |-> FALSE],  \* scnap
       [name |-> <<115, 99, 110, 115, 105, 109>>, chars |-> <<8937>>, bare |-> FALSE],  \* scnsim
       [name |-> <<115, 99, 112, 111, 108, 105, 110, 116>>, chars |-> <<10771>>, bare |-> FALSE],  \* scpolint
       [name |-> <<115, 99, 115, 105, 109>>, chars |-> <<8831>>, bare |-> FALSE],  \* scsim
       [name |-> <<115, 99, 121>>, chars |-> <<1089>>, bare |-> FALSE],  \* scy
       [name |-> <<115, 100, 111, 116>>, chars |-> <<8901>>, bare |-> FALSE],  \* sdot
       [name |-> <<115, 100, 111, 116, 98>>, chars |-> <<8865>>, bare |-> FALSE],  \* sdotb
       [name |-> <<115, 100, 111, 116, 101>>, chars |-> <<10854>>, bare |-> FALSE],  \* sdote
       [name |-> <<115, 101, 65, 114, 114>>, chars |-> <<8664>>, bare |-> FALSE],  \* seArr
       [name |-> <<115, 101, 97, 114, 104, 107>>, chars |-> <<10533>>, bare |-> FALSE],  \* searhk
       [name |-> <<115, 101, 97, 114, 114>>, chars |-> <<8600>>, bare |-> FALSE],  \* searr
       [name |-> <<115, 101, 97, 114, 114, 111, 119>>, chars |-> <<8600>>, bare |-> FALSE],  \* searrow
       [name |-> <<115, 101, 99, 116>>, chars |-> <<167>>, bare |-> TRUE],  \* sect
       [name |-> <<115, 101, 109, 105>>, chars |-> <<59>>, bare |-> FALSE],  \* semi
       [name |-> <<115, 101, 115, 119, 97, 114>>, chars |-> <<10537>>, bare |-> FALSE],  \* seswar
       [name |-> <<115, 101, 116, 109, 105, 110, 117, 115>>, chars |-> <<8726>>, bare |-> FALSE],  \* setminus
       [name |-> <<115, 101, 116, 109, 110>>, chars |-> <<8726>>, bare |-> FALSE],  \* setmn
       [name |-> <<115, 101, 120, 116>>, chars |-> <<10038>>, bare |-> FALSE],  \* sext
       [name |-> <<115, 102, 114>>, chars |-> <<120112>>, bare |-> FALSE],  \* sfr
       [name |-> <<115, 102, 114, 111, 119, 110>>, chars |-> <<8994>>, bare |-> FALSE],  \* sfrown
       [name |-> <<115, 104, 97, 114, 112>>, chars |-> <<9839>>, bare |-> FALSE],  \* sharp
       [name |-> <<115, 104, 99, 104, 99, 121>>, chars |-> <<1097>>, bare |-> FALSE],  \* shchcy
       [name |-> <<115, 104, 99, 121>>, chars |-> <<1096>>, bare |-> FALSE],  \* shcy
       [name |-> <<115, 104, 111, 114, 116, 109, 105, 100>>, chars |-> <<8739>>, bare |-> FALSE],  \* shortmid
       [name |-> <<115, 104, 111, 114, 116, 112, 97, 114, 97, 108, 108, 101, 108>>, chars |-> <<8741>>, bare |-> FALSE],  \* shortparallel
       [name |-> <<115, 104, 121>>, chars |-> <<173>>, bare |-> TRUE],  \* shy
       [name |-> <<115, 105, 103, 109, 97>>, chars |-> <<963>>, bare |-> FALSE],  \* sigma
       [name |-> <<115, 105, 103, 109, 97, 102>>, chars |-> <<962>>, bare |-> FALSE],  \* sigmaf
       [name |-> <<115, 105, 103, 109, 97, 118>>, chars |-> <<962>>, bare |-> FALSE],  \* sigmav
       [name |-> <<115, 105, 109>>, chars |-> <<8764>>, bare |-> FALSE],  \* sim
       [name |-> <<115, 105, 109, 100, 111, 116>>, chars |-> <<10858>>, bare |-> FALSE],  \* simdot
       [name |-> <<115, 105, 109, 101>>, chars |-> <<8771>>, bare |-> FALSE],  \* sime
       [name |-> <<115, 105, 109, 101, 113>>, chars |-> <<8771>>, bare |-> FALSE],  \* simeq
       [name |-> <<115, 105, 109, 103>>, chars |-> <<10910>>, bare |-> FALSE],  \* simg
       [name |-> <<115, 105, 109, 103, 69>>, chars |-> <<10912>>, bare |-> FALSE],  \* simgE
       [name |-> <<115, 105, 109, 108>>, chars |-> <<10909>>, bare |-> FALSE],  \* siml
       [name |-> <<115, 105, 109, 108, 69>>, chars |-> <<10911>>, bare |-> FALSE],  \* simlE
       [name |-> <<115, 105, 109, 110, 101>>, chars |-> <<8774>>, bare |-> FALSE],  \* simne
       [name |-> <<115, 105, 109, 112, 108, 117, 115>>, chars |-> <<10788>>, bare |-> FALSE],  \* simplus
       [name |-> <<115, 105, 109, 114, 97, 114, 114>>, chars |-> <<10610>>, bare |-> FALSE],  \* simrarr
       [name |-> <<115, 108, 97, 114, 114>>, chars |-> <<8592>>, bare |-> FALSE],  \* slarr
       [name |-> <<115, 109, 97, 108, 108, 115, 101, 116, 109, 105, 110, 117, 115>>, chars |-> <<8726>>, bare |-> FALSE],  \* smallsetminus
       [name |-> <<115, 109, 97, 115, 104, 112>>, chars |-> <<10803>>, bare |-> FALSE],  \* smashp
       [name |-> <<115, 109, 101, 112, 97, 114, 115, 108>>, chars |-> <<10724>>, bare |-> FALSE],  \* smeparsl
       [name |-> <<115, 109, 105, 100>>, chars |-> <<8739>>, bare |-> FALSE],  \* smid
       [name |-> <<115, 109, 105, 108, 101>>, chars |-> <<8995>>, bare |-> FALSE],  \* smile
       [name |-> <<115, 109, 116>>, chars |-> <<10922>>, bare |-> FALSE],  \* smt
       [name |-> <<115, 109, 116, 101>>, chars |-> <<10924>>, bare |-> FALSE],  \* smte
       [name |-> <<115, 109, 116, 101, 115>>, chars |-> <<10924, 65024>>, bare |-> FALSE],  \* smtes
       [name |-> <<115, 111, 102, 116, 99, 121>>, chars |-> <<1100>>, bare |-> FALSE],  \* softcy
       [name |-> <<115, 111, 108>>, chars |-> <<47>>, bare |-> FALSE],  \* sol
       [name |-> <<115, 111, 108, 98>>, chars |-> <<10692>>, bare |-> FALSE],  \* solb
       [name |-> <<115, 111, 108, 98, 97, 114>>, chars |-> <<9023>>, bare |-> FALSE],  \* solbar
       [name |-> <<115, 111, 112, 102>>, chars |-> <<120164>>, bare |-> FALSE],  \* sopf
       [name |-> <<115, 112, 97, 100, 101, 115>>, chars |-> <<9824>>, bare |-> FALSE],  \* spades
       [name |-> <<115, 112, 97, 100, 101, 115, 117, 105, 116>>, chars |-> <<9824>>, bare |-> FALSE],  \* spadesuit
       [name |-> <<115, 112, 97, 114>>, chars |-> <<8741>>, bare |-> FALSE],  \* spar
       [name |-> <<115, 113, 99, 97, 112>>, chars |-> <<8851>>, bare |-> FALSE],  \* sqcap
       [name |-> <<115, 113, 99, 97, 112, 115>>, chars |-> <<8851, 65024>>, bare |-> FALSE],  \* sqcaps
       [name |-> <<115, 113, 99, 117, 112>>, chars |-> <<8852>>, bare |-> FALSE],  \* sqcup
       [name |-> <<115, 113, 99, 117, 112, 115>>, chars |-> <<8852, 65024>>, bare |-> FALSE],  \* sqcups
       [name |-> <<115, 113, 115, 117, 98>>, chars |-> <<8847>>, bare |-> FALSE],  \* sqsub
       [name |-> <<115, 113, 115, 117, 98, 101>>, chars |-> <<8849>>, bare |-> FALSE],  \* sqsube
       [name |-> <<115, 113, 115, 117, 98, 115, 101, 116>>, chars |-> <<8847>>, bare |-> FALSE],  \* sqsubset
       [name |-> <<115, 113, 115, 117, 98, 115, 101, 116, 101, 113>>, chars |-> <<8849>>, bare |-> FALSE],  \* sqsubseteq
       [name |-> <<115, 113, 115, 117, 112>>, chars |-> <<8848>>, bare |-> FALSE],  \* sqsup
       [name |-> <<115, 113, 115, 117, 112, 101>>, chars |-> <<8850>>, bare |-> FALSE],  \* sqsupe
       [name |-> <<115, 113, 115, 117, 112, 115, 101, 116>>, chars |-> <<8848>>, bare |-> FALSE],  \* sqsupset
       [name |-> <<115, 113, 115, 117, 112, 115, 101, 116, 101, 113>>, chars |-> <<8850>>, bare |-> FALSE],  \* sqsupseteq
       [name |-> <<115, 113, 117>>, chars |-> <<9633>>, bare |-> FALSE],  \* squ
       [name |-> <<115, 113, 117, 97, 114, 101>>, chars |-> <<9633>>, bare |-> FALSE],  \* square
       [name |-> <<115, 113, 117, 97, 114, 102>>, chars |-> <<9642>>, bare |-> FALSE],  \* squarf
       [name |-> <<115, 113, 117, 102>>, chars |-> <<9642>>, bare |-> FALSE],  \* squf
       [name |-> <<115, 114, 97, 114, 114>>, chars |-> <<8594>>, bare |-> FALSE],  \* srarr
       [name |-> <<115, 115, 99, 114>>, chars |-> <<120008>>, bare |-> FALSE],  \* sscr
       [name |-> <<115, 115, 101, 116, 109, 110>>, chars |-> <<8726>>, bare |-> FALSE],  \* ssetmn
       [name |-> <<115, 115, 109, 105, 108, 101>>, chars |-> <<8995>>, bare |-> FALSE],  \* ssmile
       [name |-> <<115, 115, 116, 97, 114, 102>>, chars |-> <<8902>>, bare |-> FALSE],  \* sstarf
       [name |-> <<115, 116, 97, 114>>, chars |-> <<9734>>, bare |-> FALSE],  \* star
       [name |-> <<115, 116, 97, 114, 102>>, chars |-> <<9733>>, bare |-> FALSE],  \* starf
       [name |-> <<115, 116, 114, 97, 105, 103, 104, 116, 101, 112, 115, 105, 108, 111, 110>>, chars |-> <<1013>>, bare |-> FALSE],  \* straightepsilon
       [name |-> <<115, 116, 114, 97, 105, 103, 104, 116, 112, 104, 105>>, chars |-> <<981>>, bare |-> FALSE],  \* straightphi
       [name |-> <<115, 116, 114, 110, 115>>, chars |-> <<175>>, bare |-> FALSE],  \* strns
       [name |-> <<115, 117, 98>>, chars |-> <<8834>>, bare |-> FALSE],  \* sub
       [name |-> <<115, 117, 98, 69>>, chars |-> <<10949>>, bare |-> FALSE],  \* subE
       [name |-> <<115, 117, 98, 100, 111, 116>>, chars |-> <<10941>>, bare |-> FALSE],  \* subdot
       [name |-> <<115, 117, 98, 101>>, chars |-> <<8838>>, bare |-> FALSE],  \* sube
       [name |-> <<115, 117, 98, 101, 100, 111, 116>>, chars |-> <<10947>>, bare |-> FALSE],  \* subedot
       [name |-> <<115, 117, 98, 109, 117, 108, 116>>, chars |-> <<10945>>, bare |-> FALSE],  \* submult
       [name |-> <<115, 117, 98, 110, 69>>, chars |-> <<10955>>, bare |-> FALSE],  \* subnE
       [name |-> <<115, 117, 98, 110, 101>>, chars |-> <<8842>>, bare |-> FALSE],  \* subne
       [name |-> <<115, 117, 98, 112, 108, 117, 115>>, chars |-> <<10943>>, bare |-> FALSE],  \* subplus
       [name |-> <<115, 117, 98, 114, 97, 114, 114>>, chars |-> <<10617>>, bare |-> FALSE],  \* subrarr
       [name |-> <<115, 117, 98, 115, 101, 116>>, chars |-> <<8834>>, bare |-> FALSE],  \* subset
       [name |-> <<115, 117, 98, 115, 101, 116, 101, 113>>, chars |-> <<8838>>, bare |-> FALSE],  \* subseteq
       [name |-> <<115, 117, 98, 115, 101, 116, 101, 113, 113>>, chars |-> <<10949>>, bare |-> FALSE],  \* subseteqq
       [name |-> <<115, 117, 98, 115, 101, 116, 110, 101, 113>>, chars |-> <<8842>>, bare |-> FALSE],  \* subsetneq
       [name |-> <<115, 117, 98, 115, 101, 116, 110, 101, 113, 113>>, chars |-> <<10955>>, bare |-> FALSE],  \* subsetneqq
       [name |-> <<115, 117, 98, 115, 105, 109>>, chars |-> <<10951>>, bare |-> FALSE],  \* subsim
       [name |-> <<115, 117, 98, 115, 117, 98>>, chars |-> <<10965>>, bare |-> FALSE],  \* subsub
       [name |-> <<115, 117, 98, 115, 117, 112>>, chars |-> <<10963>>, bare |-> FALSE],  \* subsup
       [name |-> <<115, 117, 99, 99>>, chars |-> <<8827>>, bare |-> FALSE],  \* succ
       [name |-> <<115, 117, 99, 99, 97, 112, 112, 114, 111, 120>>, chars |-> <<10936>>, bare |-> FALSE],  \* succapprox
       [name |-> <<115, 117, 99, 99, 99, 117, 114, 108, 121, 101, 113>>, chars |-> <<8829>>, bare |-> FALSE],  \* succcurlyeq
       [name |-> <<115, 117, 99, 99, 101, 113>>, chars |-> <<10928>>, bare |-> FALSE],  \* succeq
       [name |-> <<115, 117, 99, 99, 110, 97, 112, 112, 114, 111, 120>>, chars |-> <<10938>>, bare |-> FALSE],  \* succnapprox
       [name |-> <<115, 117, 99, 99, 110, 101, 113, 113>>, chars |-> <<10934>>, bare |-> FALSE],  \* succneqq
       [name |-> <<115, 117, 99, 99, 110, 115, 105, 109>>, chars |-> <<8937>>, bare |-> FALSE],  \* succnsim
       [name |-> <<115, 117, 99, 99, 115, 105, 109>>, chars |-> <<8831>>, bare |-> FALSE],  \* succsim
       [name |-> <<115, 117, 109>>, chars |-> <<8721>>, bare |-> FALSE],  \* sum
       [name |-> <<115, 117, 110, 103>>, chars |-> <<9834>>, bare |-> FALSE],  \* sung
       [name |-> <<115, 117, 112>>, chars |-> <<8835>>, bare |-> FALSE],  \* sup
       [name |-> <<115, 117, 112, 49>>, chars |-> <<185>>, bare |-> TRUE],  \* sup1
       [name |-> <<115, 117, 112, 50>>, chars |-> <<178>>, bare |-> TRUE],  \* sup2
       [name |-> <<115, 117, 112, 51>>, chars |-> <<179>>, bare |-> TRUE],  \* sup3
       [name |-> <<115, 117, 112, 69>>, chars |-> <<10950>>, bare |-> FALSE],  \* supE
       [name |-> <<115, 117, 112, 100, 111, 116>>, chars |-> <<10942>>, bare |-> FALSE],  \* supdot
       [name |-> <<115, 117, 112, 100, 115, 117, 98>>, chars |-> <<10968>>, bare |-> FALSE],  \* supdsub
       [name |-> <<115, 117, 112, 101>>, chars |-> <<8839>>, bare |-> FALSE],  \* supe
       [name |-> <<115, 117, 112, 101, 100, 111, 116>>, chars |-> <<10948>>, bare |-> FALSE],  \* supedot
       [name |-> <<115, 117, 112, 104, 115, 111, 108>>, chars |-> <<10185>>, bare |-> FALSE],  \* suphsol
       [name |-> <<115, 117, 112, 104, 115, 117, 98>>, chars |-> <<10967>>, bare |-> FALSE],  \* suphsub
       [name |-> <<115, 117, 112, 108, 97, 114, 114>>, chars |-> <<10619>>, bare |-> FALSE],  \* suplarr
       [name |-> <<115, 117, 112, 109, 117, 108, 116>>, chars |-> <<10946>>, bare |-> FALSE],  \* supmult
       [name |-> <<115, 117, 112, 110, 69>>, chars |-> <<10956>>, bare |-> FALSE],  \* supnE
       [name |-> <<115, 117, 112, 110, 101>>, chars |-> <<8843>>, bare |-> FALSE],  \* supne
       [name |-> <<115, 117, 112, 112, 108, 117, 115>>, chars |-> <<10944>>, bare |-> FALSE],  \* supplus
       [name |-> <<115, 117, 112, 115, 101, 116>>, chars |-> <<8835>>, bare |-> FALSE],  \* supset
       [name |-> <<115, 117, 112, 115, 101, 116, 101, 113>>, chars |-> <<8839>>, bare |-> FALSE],  \* supseteq
       [name |-> <<115, 117, 112, 115, 101, 116, 101, 113, 113>>, chars |-> <<10950>>, bare |-> FALSE],  \* supseteqq
       [name |-> <<115, 117, 112, 115, 101, 116, 110, 101, 113>>, chars |-> <<8843>>, bare |-> FALSE],  \* supsetneq
       [name |-> <<115, 117, 112, 115, 101, 116, 110, 101, 113, 113>>, chars |-> <<10956>>, bare |-> FALSE],  \* supsetneqq
       [name |-> <<115, 117, 112, 115, 105, 109>>, chars |-> <<10952>>, bare |-> FALSE],  \* supsim
       [name |-> <<115, 117, 112, 115, 117, 98>>, chars |-> <<10964>>, bare |-> FALSE],  \* supsub
       [name |-> <<115, 117, 112, 115, 117, 112>>, chars |-> <<10966>>, bare |-> FALSE],  \* supsup
       [name |-> <<115, 119, 65, 114, 114>>, chars |-> <<8665>>, bare |-> FALSE],  \* swArr
       [name |-> <<115, 119, 97, 114, 104, 107>>, chars |-> <<10534>>, bare |-> FALSE],  \* swarhk
       [name |-> <<115, 119, 97, 114, 114>>, chars |-> <<8601>>, bare |-> FALSE],  \* swarr
       [name |-> <<115, 119, 97, 114, 114, 111, 119>>, chars |-> <<8601>>, bare |-> FALSE],  \* swarrow
       [name |-> <<115, 119, 110, 119, 97, 114>>, chars |-> <<10538>>, bare |-> FALSE],  \* swnwar
       [name |-> <<115, 122, 108, 105, 103>>, chars |-> <<223>>, bare |-> TRUE],  \* szlig
       [name |-> <<116, 97, 114, 103, 101, 116>>, chars |-> <<8982>>, bare |-> FALSE],  \* target
       [name |-> <<116, 97, 117>>, chars |-> <<964>>, bare |-> FALSE],  \* tau
       [name |-> <<116, 98, 114, 107>>, chars |-> <<9140>>, bare |-> FALSE],  \* tbrk
       [name |-> <<116, 99, 97, 114, 111, 110>>, chars |-> <<357>>, bare |-> FALSE],  \* tcaron
       [name |-> <<116, 99, 101, 100, 105, 108>>, chars |-> <<355>>, bare |-> FALSE],  \* tcedil
       [name |-> <<116, 99, 121>>, chars |-> <<1090>>, bare |-> FALSE],  \* tcy
       [name |-> <<116, 100, 111, 116>>, chars |-> <<8411>>, bare |-> FALSE],  \* tdot
       [name |-> <<116, 101, 108, 114, 101, 99>>, chars |-> <<8981>>, bare |-> FALSE],  \* telrec
       [name |-> <<116, 102, 114>>, chars |-> <<120113>>, bare |-> FALSE],  \* tfr
       [name |-> <<116, 104, 101, 114, 101, 52>>, chars |-> <<8756>>, bare |-> FALSE],  \* there4
       [name |-> <<116, 104, 101, 114, 101, 102, 111, 114, 101>>, chars |-> <<8756>>, bare |-> FALSE],  \* therefore
       [name |-> <<116, 104, 101, 116, 97>>, chars |-> <<952>>, bare |-> FALSE],  \* theta
       [name |-> <<116, 104, 101, 116, 97, 115, 121, 109>>, chars |-> <<977>>, bare |-> FALSE],  \* thetasym
       [name |-> <<116, 104, 101, 116, 97, 118>>, chars |-> <<977>>, bare |-> FALSE],  \* thetav
       [name |-> <<116, 104, 105, 99, 107, 97, 112, 112, 114, 111, 120>>, chars |-> <<8776>>, bare |-> FALSE],  \* thickapprox
       [name |-> <<116, 104, 105, 99, 107, 115, 105, 109>>, chars |-> <<8764>>, bare |-> FALSE],  \* thicksim
       [name |-> <<116, 104, 105, 110, 115, 112>>, chars |-> <<8201>>, bare |-> FALSE],  \* thinsp
       [name |-> <<116, 104, 107, 97, 112>>, chars |-> <<8776>>, bare |-> FALSE],  \* thkap
       [name |-> <<116, 104, 107, 115, 105, 109>>, chars |-> <<8764>>, bare |-> FALSE],  \* thksim
       [name |-> <<116, 104, 111, 114, 110>>, chars |-> <<254>>, bare |-> TRUE],  \* thorn
       [name |-> <<116, 105, 108, 100, 101>>, chars |-> <<732>>, bare |-> FALSE],  \* tilde
       [name |-> <<116, 105, 109, 101, 115>>, chars |-> <<215>>, bare |-> TRUE],  \* times
       [name |-> <<116, 105, 109, 101, 115, 98>>, chars |-> <<8864>>, bare |-> FALSE],  \* timesb
       [name |-> <<116, 105, 109, 101, 115, 98, 97, 114>>, chars |-> <<10801>>, bare |-> FALSE],  \* timesbar
       [name |-> <<116, 105, 109, 101, 115, 100>>, chars |-> <<10800>>, bare |-> FALSE],  \* timesd
       [name |-> <<116, 105, 110, 116>>, chars |-> <<8749>>, bare |-> FALSE],  \* tint
       [name |-> <<116, 111, 101, 97>>, chars |-> <<10536>>, bare |-> FALSE],  \* toea
       [name |-> <<116, 111, 112>>, chars |-> <<8868>>, bare |-> FALSE],  \* top
       [name |-> <<116, 111, 112, 98, 111, 116>>, chars |-> <<9014>>, bare |-> FALSE],  \* topbot
       [name |-> <<116, 111, 112, 99, 105, 114>>, chars |-> <<10993>>, bare |-> FALSE],  \* topcir
       [name |-> <<116, 111, 112, 102>>, chars |-> <<120165>>, bare |-> FALSE],  \* topf
       [name |-> <<116, 111, 112, 102, 111, 114, 107>>, chars |-> <<10970>>, bare |-> FALSE],  \* topfork
       [name |-> <<116, 111, 115, 97>>, chars |-> <<10537>>, bare |-> FALSE],  \* tosa
       [name |-> <<116, 112, 114, 105, 109, 101>>, chars |-> <<8244>>, bare |-> FALSE],  \* tprime
       [name |-> <<116, 114, 97, 100, 101>>, chars |-> <<8482>>, bare |-> FALSE],  \* trade
       [name |-> <<116, 114, 105, 97, 110, 103, 108, 101>>, chars |-> <<9653>>, bare |-> FALSE],  \* triangle
       [name |-> <<116, 114, 105, 97, 110, 103, 108, 101, 100, 111, 119, 110>>, chars |-> <<9663>>, bare |-> FALSE],  \* triangledown
       [name |-> <<116, 114, 105, 97, 110, 103, 108, 101, 108, 101, 102, 116>>, chars |-> <<9667>>, bare |-> FALSE],  \* triangleleft
       [name |-> <<116, 114, 105, 97, 110, 103, 108, 101, 108, 101, 102, 116, 101, 113>>, chars |-> <<8884>>, bare |-> FALSE],  \* trianglelefteq
       [name |-> <<116, 114, 105, 97, 110, 103, 108, 101, 113>>, chars |-> <<8796>>, bare |-> FALSE],  \* triangleq
       [name |-> <<116, 114, 105, 97, 110, 103, 108, 101, 114, 105, 103, 104, 116>>, chars |-> <<9657>>, bare |-> FALSE],  \* triangleright
       [name |-> <<116, 114, 105, 97, 110, 103, 108, 101, 114, 105, 103, 104, 116, 101, 113>>, chars |-> <<8885>>, bare |-> FALSE],  \* trianglerighteq
       [name |-> <<116, 114, 105, 100, 111, 116>>, chars |-> <<9708>>, bare |-> FALSE],  \* tridot
       [name |-> <<116, 114, 105, 101>>, chars |-> <<8796>>, bare |-> FALSE],  \* trie
       [name |-> <<116, 114, 105, 109, 105, 110, 117, 115>>, chars |-> <<10810>>, bare |-> FALSE],  \* triminus
       [name |-> <<116, 114, 105, 112, 108, 117, 115>>, chars |-> <<10809>>, bare |-> FALSE],  \* triplus
       [name |-> <<116, 114, 105, 115, 98>>, chars |-> <<10701>>, bare |-> FALSE],  \* trisb
       [name |-> <<116, 114, 105, 116, 105, 109, 101>>, chars |-> <<10811>>, bare |-> FALSE],  \* tritime
       [name |-> <<116, 114, 112, 101, 122, 105, 117, 109>>, chars |-> <<9186>>, bare |-> FALSE],  \* trpezium
       [name |-> <<116, 115, 99, 114>>, chars |-> <<120009>>, bare |-> FALSE],  \* tscr
       [name |-> <<116, 115, 99, 121>>, chars |-> <<1094>>, bare |-> FALSE],  \* tscy
       [name |-> <<116, 115, 104, 99, 121>>, chars |-> <<1115>>, bare |-> FALSE],  \* tshcy
       [name |-> <<116, 115, 116, 114, 111, 107>>, chars |-> <<359>>, bare |-> FALSE],  \* tstrok
       [name |-> <<116, 119, 105, 120, 116>>, chars |-> <<8812>>, bare |-> FALSE],  \* twixt
       [name |-> <<116, 119, 111, 104, 101, 97, 100, 108, 101, 102, 116, 97, 114, 114, 111, 119>>, chars |-> <<8606>>, bare |-> FALSE],  \* twoheadleftarrow
       [name |-> <<116, 119, 111, 104, 101, 97, 100, 114, 105, 103, 104, 116, 97, 114, 114, 111, 119>>, chars |-> <<8608>>, bare |-> FALSE],  \* twoheadrightarrow
       [name |-> <<117, 65, 114, 114>>, chars |-> <<8657>>, bare |-> FALSE],  \* uArr
       [name |-> <<117, 72, 97, 114>>, chars |-> <<10595>>, bare |-> FALSE],  \* uHar
       [name |-> <<117, 97, 99, 117, 116, 101>>, chars |-> <<250>>, bare |-> TRUE],  \* uacute
       [name |-> <<117, 97, 114, 114>>, chars |-> <<8593>>, bare |-> FALSE],  \* uarr
       [name |-> <<117, 98, 114, 99, 121>>, chars |-> <<1118>>, bare |-> FALSE],  \* ubrcy
       [name |-> <<117, 98, 114, 101, 118, 101>>, chars |-> <<365>>, bare |-> FALSE],  \* ubreve
       [name |-> <<117, 99, 105, 114, 99>>, chars |-> <<251>>, bare |-> TRUE],  \* ucirc
       [name |-> <<117, 99, 121>>, chars |-> <<1091>>, bare |-> FALSE],  \* ucy
       [name |-> <<117, 100, 97, 114, 114>>, chars |-> <<8645>>, bare |-> FALSE],  \* udarr
       [name |-> <<117, 100, 98, 108, 97, 99>>, chars |-> <<369>>, bare |-> FALSE],  \* udblac
       [name |-> <<117, 100, 104, 97, 114>>, chars |-> <<10606>>, bare |-> FALSE],  \* udhar
       [name |-> <<117, 102, 105, 115, 104, 116>>, chars |-> <<10622>>, bare |-> FALSE],  \* ufisht
       [name |-> <<117, 102, 114>>, chars |-> <<120114>>, bare |-> FALSE],  \* ufr
       [name |-> <<117, 103, 114, 97, 118, 101>>, chars |-> <<249>>, bare |-> TRUE],  \* ugrave
       [name |-> <<117, 104, 97, 114, 108>>, chars |-> <<8639>>, bare |-> FALSE],  \* uharl
       [name |-> <<117, 104, 97, 114, 114>>, chars |-> <<8638>>, bare |-> FALSE],  \* uharr
       [name |-> <<117, 104, 98, 108, 107>>, chars |-> <<9600>>, bare |-> FALSE],  \* uhblk
       [name |-> <<117, 108, 99, 111, 114, 110>>, chars |-> <<8988>>, bare |-> FALSE],  \* ulcorn
       [name |-> <<117, 108, 99, 111, 114, 110, 101, 114>>, chars |-> <<8988>>, bare |-> FALSE],  \* ulcorner
       [name |-> <<117, 108, 99, 114, 111, 112>>, chars |-> <<8975>>, bare |-> FALSE],  \* ulcrop
       [name |-> <<117, 108, 116, 114, 105>>, chars |-> <<9720>>, bare |-> FALSE],  \* ultri
       [name |-> <<117, 109, 97, 99, 114>>, chars |-> <<363>>, bare |-> FALSE],  \* umacr
       [name |-> <<117, 109, 108>>, chars |-> <<168>>, bare |-> TRUE],  \* uml
       [name |-> <<117, 111, 103, 111, 110>>, chars |-> <<371>>, bare |-> FALSE],  \* uogon
       [name |-> <<117, 111, 112, 102>>, chars |-> <<120166>>, bare |-> FALSE],  \* uopf
       [name |-> <<117, 112, 97, 114, 114, 111, 119>>, chars |-> <<8593>>, bare |-> FALSE],  \* uparrow
       [name |-> <<117, 112, 100, 111, 119, 110, 97, 114, 114, 111, 119>>, chars |-> <<8597>>, bare |-> FALSE],  \* updownarrow
       [name |-> <<117, 112, 104, 97, 114, 112, 111, 111, 110, 108, 101, 102, 116>>, chars |-> <<8639>>, bare |-> FALSE],  \* upharpoonleft
       [name |-> <<117, 112, 104, 97, 114, 112, 111, 111, 110, 114, 105, 103, 104, 116>>, chars |-> <<8638>>, bare |-> FALSE],  \* upharpoonright
       [name |-> <<117, 112, 108, 117, 115>>, chars |-> <<8846>>, bare |-> FALSE],  \* uplus
       [name |-> <<117, 112, 115, 105>>, chars |-> <<965>>, bare |-> FALSE],  \* upsi
       [name |-> <<117, 112, 115, 105, 104>>, chars |-> <<978>>, bare |-> FALSE],  \* upsih
       [name |-> <<117, 112, 115, 105, 108, 111, 110>>, chars |-> <<965>>, bare |-> FALSE],  \* upsilon
       [name |-> <<117, 112, 117, 112, 97, 114, 114, 111, 119, 115>>, chars |-> <<8648>>, bare |-> FALSE],  \* upuparrows
       [name |-> <<117, 114, 99, 111, 114, 110>>, chars |-> <<8989>>, bare |-> FALSE],  \* urcorn
       [name |-> <<117, 114, 99, 111, 114, 110, 101, 114>>, chars |-> <<8989>>, bare |-> FALSE],  \* urcorner
       [name |-> <<117, 114, 99, 114, 111, 112>>, chars |-> <<8974>>, bare |-> FALSE],  \* urcrop
       [name |-> <<117, 114, 105, 110, 103>>, chars |-> <<367>>, bare |-> FALSE],  \* uring
       [name |-> <<117, 114, 116, 114, 105>>, chars |-> <<9721>>, bare |-> FALSE],  \* urtri
       [name |-> <<117, 115, 99, 114>>, chars |-> <<120010>>, bare |-> FALSE],  \* uscr
       [name |-> <<117, 116, 100, 111, 116>>, chars |-> <<8944>>, bare |-> FALSE],  \* utdot
       [name |-> <<117, 116, 105, 108, 100, 101>>, chars |-> <<361>>, bare |-> FALSE],  \* utilde
       [name |-> <<117, 116, 114, 105>>, chars |-> <<9653>>, bare |-> FALSE],  \* utri
       [name |-> <<117, 116, 114, 105, 102>>, chars |-> <<9652>>, bare |-> FALSE],  \* utrif
       [name |-> <<117, 117, 97, 114, 114>>, chars |-> <<8648>>, bare |-> FALSE],  \* uuarr
       [name |-> <<117, 117, 109, 108>>, chars |-> <<252>>, bare |-> TRUE],  \* uuml
       [name |-> <<117, 119, 97, 110, 103, 108, 101>>, chars |-> <<10663>>, bare |-> FALSE],  \* uwangle
       [name |-> <<118, 65, 114, 114>>, chars |-> <<8661>>, bare |-> FALSE],  \* vArr
       [name |-> <<118, 66, 97, 114>>, chars |-> <<10984>>, bare |-> FALSE],  \* vBar
       [name |-> <<118, 66, 97, 114, 118>>, chars |-> <<10985>>, bare |-> FALSE],  \* vBarv
       [name |-> <<118, 68, 97, 115, 104>>, chars |-> <<8872>>, bare |-> FALSE],  \* vDash
       [name |-> <<118, 97, 110, 103, 114, 116>>, chars |-> <<10652>>, bare |-> FALSE],  \* vangrt
       [name |-> <<118, 97, 114, 101, 112, 115, 105, 108, 111, 110>>, chars |-> <<1013>>, bare |-> FALSE],  \* varepsilon
       [name |-> <<118, 97, 114, 107, 97, 112, 112, 97>>, chars |-> <<1008>>, bare |-> FALSE],  \* varkappa
       [name |-> <<118, 97, 114, 110, 111, 116, 104, 105, 110, 103>>, chars |-> <<8709>>, bare |-> FALSE],  \* varnothing
       [name |-> <<118, 97, 114, 112, 104, 105>>, chars |-> <<981>>, bare |-> FALSE],  \* varphi
       [name |-> <<118, 97, 114, 112, 105>>, chars |-> <<982>>, bare |-> FALSE],  \* varpi
       [name |-> <<118, 97, 114, 112, 114, 111, 112, 116, 111>>, chars |-> <<8733>>, bare |-> FALSE],  \* varpropto
       [name |-> <<118, 97, 114, 114>>, chars |-> <<8597>>, bare |-> FALSE],  \* varr
       [name |-> <<118, 97, 114, 114, 104, 111>>, chars |-> <<1009>>, bare |-> FALSE],  \* varrho
       [name |-> <<118, 97, 114, 115, 105, 103, 109, 97>>, chars |-> <<962>>, bare |-> FALSE],  \* varsigma
       [name |-> <<118, 97, 114, 115, 117, 98, 115, 101, 116, 110, 101, 113>>, chars |-> <<8842, 65024>>, bare |-> FALSE],  \* varsubsetneq
       [name |-> <<118, 97, 114, 115, 117, 98, 115, 101, 116, 110, 101, 113, 113>>, chars |-> <<10955, 65024>>, bare |-> FALSE],  \* varsubsetneqq
       [name |-> <<118, 97, 114, 115, 117, 112, 115, 101, 116, 110, 101, 113>>, chars |-> <<8843, 65024>>, bare |-> FALSE],  \* varsupsetneq
       [name |-> <<118, 97, 114, 115, 117, 112, 115, 101, 116, 110, 101, 113, 113>>, chars |-> <<10956, 65024>>, bare |-> FALSE],  \* varsupsetneqq
       [name |-> <<118, 97, 114, 116, 104, 101, 116, 97>>, chars |-> <<977>>, bare |-> FALSE],  \* vartheta
       [name |-> <<118, 97, 114, 116, 114, 105, 97, 110, 103, 108, 101, 108, 101, 102, 116>>, chars |-> <<8882>>, bare |-> FALSE],  \* vartriangleleft
       [name |-> <<118, 97, 114, 116, 114, 105, 97, 110, 103, 108, 101, 114, 105, 103, 104, 116>>, chars |-> <<8883>>, bare |-> FALSE],  \* vartriangleright
       [name |-> <<118, 99, 121>>, chars |-> <<1074>>, bare |-> FALSE],  \* vcy
       [name |-> <<118, 100, 97, 115, 104>>, chars |-> <<8866>>, bare |-> FALSE],  \* vdash
       [name |-> <<118, 101, 101>>, chars |-> <<8744>>, bare |-> FALSE],  \* vee
       [name |-> <<118, 101, 101, 98, 97, 114>>, chars |-> <<8891>>, bare |-> FALSE],  \* veebar
       [name |-> <<118, 101, 101, 101, 113>>, chars |-> <<8794>>, bare |-> FALSE],  \* veeeq
       [name |-> <<118, 101, 108, 108, 105, 112>>, chars |-> <<8942>>, bare |-> FALSE],  \* vellip
       [name |-> <<118, 101, 114, 98, 97, 114>>, chars |-> <<124>>, bare |-> FALSE],  \* verbar
       [name |-> <<118, 101, 114, 116>>, chars |-> <<124>>, bare |-> FALSE],  \* vert
       [name |-> <<118, 102, 114>>, chars |-> <<120115>>, bare |-> FALSE],  \* vfr
       [name |-> <<118, 108, 116, 114, 105>>, chars |-> <<8882>>, bare |-> FALSE],  \* vltri
       [name |-> <<118, 110, 115, 117, 98>>, chars |-> <<8834, 8402>>, bare |-> FALSE],  \* vnsub
       [name |-> <<118, 110, 115, 117, 112>>, chars |-> <<8835, 8402>>, bare |-> FALSE],  \* vnsup
       [name |-> <<118, 111, 112, 102>>, chars |-> <<120167>>, bare |-> FALSE],  \* vopf
       [name |-> <<118, 112, 114, 111, 112>>, chars |-> <<8733>>, bare |-> FALSE],  \* vprop
       [name |-> <<118, 114, 116, 114, 105>>, chars |-> <<8883>>, bare |-> FALSE],  \* vrtri
       [name |-> <<118, 115, 99, 114>>, chars |-> <<120011>>, bare |-> FALSE],  \* vscr
       [name |-> <<118, 115, 117, 98, 110, 69>>, chars |-> <<10955, 65024>>, bare |-> FALSE],  \* vsubnE
       [name |-> <<118, 115, 117, 98, 110, 101>>, chars |-> <<8842, 65024>>, bare |-> FALSE],  \* vsubne
       [name |-> <<118, 115, 117, 112, 110, 69>>, chars |-> <<10956, 65024>>, bare |-> FALSE],  \* vsupnE
       [name |-> <<118, 115, 117, 112, 110, 101>>, chars |-> <<8843, 65024>>, bare |-> FALSE],  \* vsupne
       [name |-> <<118, 122, 105, 103, 122, 97, 103>>, chars |-> <<10650>>, bare |-> FALSE],  \* vzigzag
       [name |-> <<119, 99, 105, 114, 99>>, chars |-> <<373>>, bare |-> FALSE],  \* wcirc
       [name |-> <<119, 101, 100, 98, 97, 114>>, chars |-> <<10847>>, bare |-> FALSE],  \* wedbar
       [name |-> <<119, 101, 100, 103, 101>>, chars |-> <<8743>>, bare |-> FALSE],  \* wedge
       [name |-> <<119, 101, 100, 103, 101, 113>>, chars |-> <<8793>>, bare |-> FALSE],  \* wedgeq
       [name |-> <<119, 101, 105, 101, 114, 112>>, chars |-> <<8472>>, bare |-> FALSE],  \* weierp
       [name |-> <<119, 102, 114>>, chars |-> <<120116>>, bare |-> FALSE],  \* wfr
       [name |-> <<119, 111, 112, 102>>, chars |-> <<120168>>, bare |-> FALSE],  \* wopf
       [name |-> <<119, 112>>, chars |-> <<8472>>, bare |-> FALSE],  \* wp
       [name |-> <<119, 114>>, chars |-> <<8768>>, bare |-> FALSE],  \* wr
       [name |-> <<119, 114, 101, 97, 116, 104>>, chars |-> <<8768>>, bare |-> FALSE],  \* wreath
       [name |-> <<119, 115, 99, 114>>, chars |-> <<120012>>, bare |-> FALSE],  \* wscr
       [name |-> <<120, 99, 97, 112>>, chars |-> <<8898>>, bare |-> FALSE],  \* xcap
       [name |-> <<120, 99, 105, 114, 99>>, chars |-> <<9711>>, bare |-> FALSE],  \* xcirc
       [name |-> <<120, 99, 117, 112>>, chars |-> <<8899>>, bare |-> FALSE],  \* xcup
       [name |-> <<120, 100, 116, 114, 105>>, chars |-> <<9661>>, bare |-> FALSE],  \* xdtri
       [name |-> <<120, 102, 114>>, chars |-> <<120117>>, bare |-> FALSE],  \* xfr
       [name |-> <<120, 104, 65, 114, 114>>, chars |-> <<10234>>, bare |-> FALSE],  \* xhArr
       [name |-> <<120, 104, 97, 114, 114>>, chars |-> <<10231>>, bare |-> FALSE],  \* xharr
       [name |-> <<120, 105>>, chars |-> <<958>>, bare |-> FALSE],  \* xi
       [name |-> <<120, 108, 65, 114, 114>>, chars |-> <<10232>>, bare |-> FALSE],  \* xlArr
       [name |-> <<120, 108, 97, 114, 114>>, chars |-> <<10229>>, bare |-> FALSE],  \* xlarr
       [name |-> <<120, 109, 97, 112>>, chars |-> <<10236>>, bare |-> FALSE],  \* xmap
       [name |-> <<120, 110, 105, 115>>, chars |-> <<8955>>, bare |-> FALSE],  \* xnis
       [name |-> <<120, 111, 100, 111, 116>>, chars |-> <<10752>>, bare |-> FALSE],  \* xodot
       [name |-> <<120, 111, 112, 102>>, chars |-> <<120169>>, bare |-> FALSE],  \* xopf
       [name |-> <<120, 111, 112, 108, 117, 115>>, chars |-> <<10753>>, bare |-> FALSE],  \* xoplus
       [name |-> <<120, 111, 116, 105, 109, 101>>, chars |-> <<10754>>, bare |-> FALSE],  \* xotime
       [name |-> <<120, 114, 65, 114, 114>>, chars |-> <<10233>>, bare |-> FALSE],  \* xrArr
       [name |-> <<120, 114, 97, 114, 114>>, chars |-> <<10230>>, bare |-> FALSE],  \* xrarr
       [name |-> <<120, 115, 99, 114>>, chars |-> <<120013>>, bare |-> FALSE],  \* xscr
       [name |-> <<120, 115, 113, 99, 117, 112>>, chars |-> <<10758>>, bare |-> FALSE],  \* xsqcup
       [name |-> <<120, 117, 112, 108, 117, 115>>, chars |-> <<10756>>, bare |-> FALSE],  \* xuplus
       [name |-> <<120, 117, 116, 114, 105>>, chars |-> <<9651>>, bare |-> FALSE],  \* xutri
       [name |-> <<120, 118, 101, 101>>, chars |-> <<8897>>, bare |-> FALSE],  \* xvee
       [name |-> <<120, 119, 101, 100, 103, 101>>, chars |-> <<8896>>, bare |-> FALSE],  \* xwedge
       [name |-> <<121, 97, 99, 117, 116, 101>>, chars |-> <<253>>, bare |-> TRUE],  \* yacute
       [name |-> <<121, 97, 99, 121>>, chars |-> <<1103>>, bare |-> FALSE],  \* yacy
       [name |-> <<121, 99, 105, 114, 99>>, chars |-> <<375>>, bare |-> FALSE],  \* ycirc
       [name |-> <<121, 99, 121>>, chars |-> <<1099>>, bare |-> FALSE],  \* ycy
       [name |-> <<121, 101, 110>>, chars |-> <<165>>, bare |-> TRUE],  \* yen
       [name |-> <<121, 102, 114>>, chars |-> <<120118>>, bare |-> FALSE],  \* yfr
       [name |-> <<121, 105, 99, 121>>, chars |-> <<1111>>, bare |-> FALSE],  \* yicy
       [name |-> <<121, 111, 112, 102>>, chars |-> <<120170>>, bare |-> FALSE],  \* yopf
       [name |-> <<121, 115, 99, 114>>, chars |-> <<120014>>, bare |-> FALSE],  \* yscr
       [name |-> <<121, 117, 99, 121>>, chars |-> <<1102>>, bare |-> FALSE],  \* yucy
       [name |-> <<121, 117, 109, 108>>, chars |-> <<255>>, bare |-> TRUE],  \* yuml
       [name |-> <<122, 97, 99, 117, 116, 101>>, chars |-> <<378>>, bare |-> FALSE],  \* zacute
       [name |-> <<122, 99, 97, 114, 111, 110>>, chars |-> <<382>>, bare |-> FALSE],  \* zcaron
       [name |-> <<122, 99, 121>>, chars |-> <<1079>>, bare |-> FALSE],  \* zcy
       [name |-> <<122, 100, 111, 116>>, chars |-> <<380>>, bare |-> FALSE],  \* zdot
       [name |-> <<122, 101, 101, 116, 114, 102>>, chars |-> <<8488>>, bare |-> FALSE],  \* zeetrf
       [name |-> <<122, 101, 116, 97>>, chars |-> <<950>>, bare |-> FALSE],  \* zeta
       [name |-> <<122, 102, 114>>, chars |-> <<120119>>, bare |-> FALSE],  \* zfr
       [name |-> <<122, 104, 99, 121>>, chars |-> <<1078>>, bare |-> FALSE],  \* zhcy
       [name |-> <<122, 105, 103, 114, 97, 114, 114>>, chars |-> <<8669>>, bare |-> FALSE],  \* zigrarr
       [name |-> <<122, 111, 112, 102>>, chars |-> <<120171>>, bare |-> FALSE],  \* zopf
       [name |-> <<122, 115, 99, 114>>, chars |-> <<120015>>, bare |-> FALSE],  \* zscr
       [name |-> <<122, 119, 106>>, chars |-> <<8205>>, bare |-> FALSE],  \* zwj
       [name |-> <<122, 119, 110, 106>>, chars |-> <<8204>>, bare |-> FALSE]  \* zwnj
    >>

\* The references among refs that are called name (bare: and are known
\* without the semicolon).
ReferencesCalled(refs, name, bare) ==
    {k \in 1..Len(refs) : refs[k].name = name /\ (bare => refs[k].bare)}

CharactersAt(refs, hits) == IF hits = {} THEN <<>> ELSE refs[CHOOSE k \in hits : TRUE].chars

CharactersIn(refs, name, bare) == CharactersAt(refs, ReferencesCalled(refs, name, bare))

\* The characters of the reference called name (bare: without its
\* semicolon); <<>> when there is no such reference.
NamedCharacters(name, bare) == CharactersIn(NamedReferences, name, bare)

\* html._invalid_charrefs: what html.unescape puts for these numbers.
InvalidCharrefs ==
    0 :> 65533 @@ 13 :> 13 @@ 128 :> 8364 @@ 129 :> 129 @@ 130 :> 8218 @@ 131 :> 402 @@
    132 :> 8222 @@ 133 :> 8230 @@ 134 :> 8224 @@ 135 :> 8225 @@ 136 :> 710 @@ 137 :> 8240 @@
    138 :> 352 @@ 139 :> 8249 @@ 140 :> 338 @@ 141 :> 141 @@ 142 :> 381 @@ 143 :> 143 @@
    144 :> 144 @@ 145 :> 8216 @@ 146 :> 8217 @@ 147 :> 8220 @@ 148 :> 8221 @@ 149 :> 8226 @@
    150 :> 8211 @@ 151 :> 8212 @@ 152 :> 732 @@ 153 :> 8482 @@ 154 :> 353 @@ 155 :> 8250 @@
    156 :> 339 @@ 157 :> 157 @@ 158 :> 382 @@ 159 :> 376

\* html._invalid_codepoints: the numbers html.unescape puts nothing for.
InvalidCodepoints ==
    {11} \cup
    UNION {1..8, 14..31, 127..159, 64976..65007, 65534..65535, 131070..131071, 196606..196607, 262142..262143, 327678..327679, 393214..393215, 458750..458751, 524286..524287, 589822..589823, 655358..655359, 720894..720895, 786430..786431, 851966..851967, 917502..917503, 983038..983039, 1048574..1048575, 1114110..1114111}

\* html.unescape for &#digits or &#xdigits, with the number n.
NumericCharacter(n) ==
    IF n \in DOMAIN InvalidCharrefs THEN <<InvalidCharrefs[n]>>
    ELSE IF (n >= 55296 /\ n <= 57343) \/ n >= TooLarge THEN <<ReplacementChar>>
    ELSE IF n \in InvalidCodepoints THEN <<>>
    ELSE <<n>>

\* A numeric reference of html.unescape at the & of position a: where the
\* text goes on and what stands for the reference (the & itself when there
\* is none).  The digits are those of from up to to.
NumericRefTo(v, a, hex, from, to) ==
    IF to = from THEN [to |-> a + 1, text |-> <<Amp>>]
    ELSE [to |-> IF to <= Len(v) /\ v[to] = Semicolon THEN to + 1 ELSE to,
          text |-> NumericCharacter(NumberFrom(SubSeq(v, from, to - 1), 1,
                                               IF hex THEN 16 ELSE 10, 0))]

NumericRefFrom(v, a, hex, from) ==
    NumericRefTo(v, a, hex, from,
                 First(v, from, LAMBDA j : v[j] \notin (IF hex THEN HexDigits ELSE Digits)))

NumericRefOf(v, a, hex) == NumericRefFrom(v, a, hex, IF hex THEN a + 3 ELSE a + 2)

NumericRef(v, a) == NumericRefOf(v, a, a + 2 <= Len(v) /\ v[a + 2] \in {Ord("x"), Ord("X")})

\* The largest number of S, 0 when S is empty.
LargestOr0(S) == IF S = {} THEN 0 ELSE CHOOSE x \in S : \A y \in S : y <= x

\* The longest proper beginning of s, of two characters or more, that is a
\* bare reference of refs; 0 when there is none.
BarePrefix(refs, s) ==
    LargestOr0({x \in 2..(Len(s) - 1) : CharactersIn(refs, SubSeq(s, 1, x), TRUE) /= <<>>})

\* What html.unescape puts for &s: whole is what stands for all of s, x the
\* length of its longest bare beginning.
NamedTextOr(refs, s, whole, x) ==
    IF whole /= <<>> THEN whole
    ELSE IF x > 0 THEN CharactersIn(refs, SubSeq(s, 1, x), TRUE) \o From(s, x + 1)
    ELSE <<Amp>> \o s

NamedTextOf(refs, s, semi) ==
    NamedTextOr(refs, s,
                CharactersIn(refs, IF semi THEN SubSeq(s, 1, Len(s) - 1) ELSE s, ~semi),
                BarePrefix(refs, s))

NamedTextIn(refs, s) == NamedTextOf(refs, s, s[Len(s)] = Semicolon)

NamedText(s) == NamedTextIn(NamedReferences, s)

\* A named reference of html.unescape at the & of position a: up to 32
\* characters other than white space, <, &, # and ;, and a semicolon if one
\* follows.
NamedRefTo(v, a, to, end) ==
    IF to = a + 1 THEN [to |-> a + 1, text |-> <<Amp>>]
    ELSE [to |-> end, text |-> NamedText(SubSeq(v, a + 1, end - 1))]

NamedRefAt(v, a, to) ==
    NamedRefTo(v, a, to, IF to <= Len(v) /\ v[to] = Semicolon THEN to + 1 ELSE to)

NamedRef(v, a) ==
    NamedRefAt(v, a,
               Smaller(First(v, a + 1,
                             LAMBDA j : v[j] \in {9, 10, 12, 32, Lt, Amp, Hash, Semicolon}),
                       a + 33))

RECURSIVE Unescape(_)
\* html.unescape, which parse_starttag applies to attribute values: a is
\* where the first & is and r the reference there.
UnescapeRef(v, a, r) == SubSeq(v, 1, a - 1) \o r.text \o Unescape(From(v, r.to))

UnescapeAt(v, a) ==
    IF a > Len(v) THEN v
    ELSE UnescapeRef(v, a, IF a < Len(v) /\ v[a + 1] = Hash THEN NumericRef(v, a)
                           ELSE NamedRef(v, a))

Unescape(v) == UnescapeAt(v, FirstIn(v, 1, {Amp}))

\* [^\t\n\r\f />\x00]*: where the tag name ends that goes on at k.
TagNameEnd(s, k) == FirstIn(s, k, {9, 10, 13, 12, 32, Slash, Gt, 0})

\* (?:\s|/(?!>))*: past white space and the slashes no > follows.
SkipSpacesAndSlashes(s, k) ==
    First(s, k, LAMBDA j : ~(\/ IsSpace(s[j])
                             \/ s[j] = Slash /\ ~(j < Len(s) /\ s[j + 1] = Gt)))

\* Whether an attribute name can start at k: after a quote, white space or a
\* slash, with a character that is none of white space, / and >.
AttrStartsAt(s, k) ==
    /\ k > 1 /\ k <= Len(s)
    /\ s[k - 1] \in {Quote, Apostrophe, Slash} \/ IsSpace(s[k - 1])
    /\ ~IsSpace(s[k]) /\ s[k] \notin {Slash, Gt}

\* The value of the attribute whose name ends before name_end, and where the
\* attribute ends.  q is where the = signs start, e where they end, w where the
\* value starts.  A quote that is never closed is no value: the value is
\* then empty if white space follows the = signs, starts at the last of
\* several = signs, and is missing after a single one.
BareValue(s, from, to) == [value |-> SubSeq(s, from, to - 1), end |-> to]

BareValueFrom(s, from) ==
    BareValue(s, from, First(s, from, LAMBDA j : s[j] = Gt \/ IsSpace(s[j])))

QuotedValue(s, name_end, q, e, w, close) ==
    IF close <= Len(s) THEN [value |-> SubSeq(s, w + 1, close - 1), end |-> close + 1]
    ELSE IF w > e THEN [value |-> <<>>, end |-> w - 1]
    ELSE IF e - q < 2 THEN [value |-> <<>>, end |-> name_end]
    ELSE BareValueFrom(s, e - 1)

AttrValueAt(s, name_end, q, e, w) ==
    IF e = q THEN [value |-> <<>>, end |-> name_end]
    ELSE IF w <= Len(s) /\ s[w] \in {Quote, Apostrophe}
    THEN QuotedValue(s, name_end, q, e, w, First(s, w + 1, LAMBDA j : s[j] = s[w]))
    ELSE BareValueFrom(s, w)

AttrWithValue(s, k, name_end, v) ==
    [name  |-> Lower(SubSeq(s, k, name_end - 1)),
     value |-> v.value,
     next  |-> SkipSpacesAndSlashes(s, v.end)]

AttrAfterName(s, k, name_end, q, e) ==
    AttrWithValue(s, k, name_end, AttrValueAt(s, name_end, q, e, SkipSpaces(s, e)))

AttrAfterSpaces(s, k, name_end, q) ==
    AttrAfterName(s, k, name_end, q, First(s, q, LAMBDA j : s[j] /= Equals))

AttrNamedUpTo(s, k, name_end) == AttrAfterSpaces(s, k, name_end, SkipSpaces(s, name_end))

\* attrfind_tolerant at k: the attribute's name in lower case, its value as
\* written, and where the next attribute may start.
AttrAt(s, k) ==
    AttrNamedUpTo(s, k, First(s, k + 1,
                              LAMBDA j : IsSpace(s[j]) \/ s[j] \in {Slash, Equals, Gt}))

RECURSIVE AttrList(_, _, _, _)
AttrListWith(s, endpos, attrs, a) ==
    AttrList(s, a.next, endpos, Append(attrs, [name |-> a.name, value |-> a.value]))

\* Lines of parse_starttag: the attributes from k on, as far as endpos.
AttrList(s, k, endpos, attrs) ==
    IF k < endpos /\ AttrStartsAt(s, k) THEN AttrListWith(s, endpos, attrs, AttrAt(s, k))
    ELSE [attrs |-> attrs, k |-> k]

\* locatestarttagend_tolerant for the < of position i: where the match ends.
LocateStartTagEnd(s, i) ==
    SkipSpaces(s, AttrList(s, First(s, TagNameEnd(s, i + 2),
                                    LAMBDA j : ~(IsSpace(s[j]) \/ s[j] = Slash)),
                           Len(s) + 1, <<>>).k)

\* check_for_whole_start_tag: the position after the start tag, 0 for -1.
WholeStartTag(s, j) ==
    IF j > Len(s) THEN 0
    ELSE IF s[j] = Gt THEN j + 1
    ELSE IF s[j] = Slash THEN (IF j < Len(s) /\ s[j + 1] = Gt THEN j + 2 ELSE 0)
    ELSE IF s[j] \in Letters \cup {Equals} THEN 0
    ELSE j

\* end is what stands between the last attribute and endpos, stripped.
StartTagEnding(s, i, endpos, name_end, attrs, end) ==
    [to    |-> endpos,
     kind  |-> IF end = <<Gt>> THEN "start"
               ELSE IF end = <<Slash, Gt>> THEN "startend" ELSE "data",
     tag   |-> Lower(SubSeq(s, i + 1, name_end - 1)),
     attrs |-> attrs]

\* The attributes of parse_starttag: every value unescaped.
UnescapedValues(attrs) ==
    [k \in 1..Len(attrs) |-> [name |-> attrs[k].name, value |-> Unescape(attrs[k].value)]]

StartTagWith(s, i, endpos, name_end, a) ==
    StartTagEnding(s, i, endpos, name_end, UnescapedValues(a.attrs),
                   StripText(SubSeq(s, a.k, endpos - 1)))

StartTagUpTo(s, i, endpos, name_end) ==
    IF endpos = 0 THEN [to |-> 0, kind |-> "data", tag |-> <<>>, attrs |-> <<>>]
    ELSE StartTagWith(s, i, endpos, name_end,
                      AttrList(s, SkipSpacesAndSlashes(s, name_end), endpos, <<>>))

\* parse_starttag for the < of position i, which a letter follows.
ParseStartTag(s, i) ==
    StartTagUpTo(s, i, WholeStartTag(s, LocateStartTagEnd(s, i)), TagNameEnd(s, i + 2))

\* HTMLTreeBuilder.empty_element_tags: the elements that have no content.
VoidElements ==
    {Text(<<"a", "r", "e", "a">>),
     Text(<<"b", "a", "s", "e">>),
     Text(<<"b", "r">>),
     Text(<<"c", "o", "l">>),
     Text(<<"e", "m", "b", "e", "d">>),
     Text(<<"h", "r">>),
     Text(<<"i", "m", "g">>),
     Text(<<"i", "n", "p", "u", "t">>),
     Text(<<"k", "e", "y", "g", "e", "n">>),
     Text(<<"l", "i", "n", "k">>),
     Text(<<"m", "e", "n", "u", "i", "t", "e", "m">>),
     Text(<<"m", "e", "t", "a">>),
     Text(<<"p", "a", "r", "a", "m">>),
     Text(<<"s", "o", "u", "r", "c", "e">>),
     Text(<<"t", "r", "a", "c", "k">>),
     Text(<<"w", "b", "r">>),
     Text(<<"b", "a", "s", "e", "f", "o", "n", "t">>),
     Text(<<"b", "g", "s", "o", "u", "n", "d">>),
     Text(<<"c", "o", "m", "m", "a", "n", "d">>),
     Text(<<"f", "r", "a", "m", "e">>),
     Text(<<"i", "m", "a", "g", "e">>),
     Text(<<"i", "s", "i", "n", "d", "e", "x">>),
     Text(<<"n", "e", "x", "t", "i", "d">>),
     Text(<<"s", "p", "a", "c", "e", "r">>)}

\* HTMLTreeBuilder.DEFAULT_STRING_CONTAINERS: the elements whose strings are of
\* a class of their own.
StringContainers == {Text(<<"r", "t">>), Text(<<"r", "p">>), Text(<<"s", "t", "y", "l", "e">>), Text(<<"s", "c", "r", "i", "p", "t">>), Text(<<"t", "e", "m", "p", "l", "a", "t", "e">>)}

\* HTMLTreeBuilder.preserve_whitespace_tags.
PreserveWhitespaceTags == {Text(<<"p", "r", "e">>), Text(<<"t", "e", "x", "t", "a", "r", "e", "a">>)}

\* HTMLParser.CDATA_CONTENT_ELEMENTS.
CDataContentElements == {Text(<<"s", "c", "r", "i", "p", "t">>), Text(<<"s", "t", "y", "l", "e">>)}

RECURSIVE Tokens(_)
\* The white-space separated tokens of an attribute value (\S+).
TokenUpTo(v, a, b) == <<SubSeq(v, a, b - 1)>> \o Tokens(From(v, b))

TokensFrom(v, a) ==
    IF a > Len(v) THEN <<>> ELSE TokenUpTo(v, a, First(v, a, LAMBDA j : IsSpace(v[j])))

Tokens(v) == TokensFrom(v, SkipSpaces(v, 1))

\* The value of the attribute called name, the last one of that name; empty
\* when there is none.
AttrValue(attrs, name) ==
    LET at == {k \in 1..Len(attrs) : attrs[k].name = name}
    IN  IF at = {} THEN <<>> ELSE attrs[CHOOSE k \in at : \A m \in at : m <= k].value

\* The element of a start tag.
Element(tag, attrs) ==
    [El(tag) EXCEPT !.class   = Tokens(AttrValue(attrs, Text(<<"c", "l", "a", "s", "s">>))),
                    !.id      = AttrValue(attrs, Text(<<"i", "d">>)),
                    !.name    = AttrValue(attrs, Text(<<"n", "a", "m", "e">>)),
                    !.rel     = Tokens(AttrValue(attrs, Text(<<"r", "e", "l">>))),
                    !.content = AttrValue(attrs, Text(<<"c", "o", "n", "t", "e", "n", "t">>)),
                    !.href    = AttrValue(attrs, Text(<<"h", "r", "e", "f">>)),
                    !.alt     = AttrValue(attrs, Text(<<"a", "l", "t">>))]

\* The tree builder at the start: stack holds the open elements, the
\* BeautifulSoup object first; data the text met since the last node; closed
\* the void elements whose end tag is yet to be ignored; rejected whether
\* the parser raised AssertionError.
NewBuilder ==
    [stack |-> <<El(Text(<<"[", "d", "o", "c", "u", "m", "e", "n", "t", "]">>))>>, data |-> <<>>, closed |-> <<>>,
     rejected |-> FALSE]

OpenTags(b) == {b.stack[i].tag : i \in 2..Len(b.stack)}

\* endData for the text t and the class tag: text of ASCII white space alone
\* becomes one newline or blank outside pre and textarea, a NavigableString
\* inside a string container is of the container's class, and the string goes
\* below the innermost open element.
AddString(b, tag, t) ==
    [b EXCEPT !.stack[Len(b.stack)].kids =
        Append(@, StringNode(IF tag = TextTag /\ OpenTags(b) \cap StringContainers /= {}
                             THEN StringTag ELSE tag,
                             IF \/ OpenTags(b) \cap PreserveWhitespaceTags /= {}
                                \/ \E i \in 1..Len(t) : t[i] \notin AsciiSpaces
                             THEN t
                             ELSE IF \E i \in 1..Len(t) : t[i] = 10 THEN <<10>>
                             ELSE <<32>>))]

\* endData(): the text met so far becomes a string.
EndData(b) ==
    IF b.data = <<>> THEN b ELSE AddString([b EXCEPT !.data = <<>>], TextTag, b.data)

\* handle_data.
HandleData(b, d) == [b EXCEPT !.data = @ \o d]

\* handle_comment, handle_decl, unknown_decl, handle_pi: a string of a class
\* other than NavigableString.
HandleOther(b, tag, t) == AddString(EndData(b), tag, t)

RECURSIVE PopTags(_, _)
\* popTag until the stack is shorter than m: every element popped goes below
\* the one before it.
PopTags(stack, m) ==
    IF Len(stack) < m THEN stack
    ELSE PopTags([SubSeq(stack, 1, Len(stack) - 1)
                     EXCEPT ![Len(stack) - 1].kids = Append(@, stack[Len(stack)])], m)

\* _popToTag: up to the innermost open element called name, if there is one.
PopToTag(b, name) ==
    LET at == {i \in 2..Len(b.stack) : b.stack[i].tag = name}
    IN  IF at = {} THEN b
        ELSE [b EXCEPT !.stack = PopTags(@, CHOOSE i \in at : \A m \in at : m <= i)]

\* list.remove: s without its first x.
RemoveFirst(s, x) ==
    LET at == First(s, 1, LAMBDA j : s[j] = x)
    IN  SubSeq(s, 1, at - 1) \o From(s, at + 1)

\* BeautifulSoupHTMLParser.handle_endtag.
HandleEndTag(b, name, check_already_closed) ==
    IF check_already_closed /\ \E i \in 1..Len(b.closed) : b.closed[i] = name
    THEN [b EXCEPT !.closed = RemoveFirst(@, name)]
    ELSE PopToTag(EndData(b), name)

PushTag(b, e) == [b EXCEPT !.stack = Append(@, e)]

\* BeautifulSoupHTMLParser.handle_starttag: a void element is closed at once
\* and its end tag, should one come, is to be ignored.
StartTagPushed(b, name, handle_empty_element) ==
    IF name \in VoidElements /\ handle_empty_element
    THEN [HandleEndTag(b, name, FALSE) EXCEPT !.closed = Append(@, name)]
    ELSE b

HandleStartTag(b, name, attrs, handle_empty_element) ==
    StartTagPushed(PushTag(EndData(b), Element(name, attrs)), name, handle_empty_element)

\* Whether </name> starts at j, in any case and with white space around the
\* name: what the tokenizer looks for inside script and style.
GtAt(s, k) == k <= Len(s) /\ s[k] = Gt

\* Whether the character c matches the small ASCII letter l of a pattern
\* compiled with re.I: in either case, and i as U+0130 and U+0131, s as
\* U+017F, k as U+212A.
MatchesIgnoringCase(c, l) ==
    \/ c = l
    \/ c >= 65 /\ c <= 90 /\ c + 32 = l
    \/ l = Ord("i") /\ c \in {304, 305}
    \/ l = Ord("s") /\ c = 383
    \/ l = Ord("k") /\ c = 8490

CloseTagNamedAt(s, a, name) ==
    /\ a + Len(name) - 1 <= Len(s)
    /\ \A k \in 1..Len(name) : MatchesIgnoringCase(s[a + k - 1], name[k])
    /\ GtAt(s, SkipSpaces(s, a + Len(name)))

CloseTagAt(s, j, name) ==
    StartsWith(s, j, <<Lt, Slash>>) /\ CloseTagNamedAt(s, SkipSpaces(s, j + 2), name)

\* self.interesting.search: the next < or &, and inside script or style the
\* next end tag of that element.
Interesting(s, i, cdata) ==
    IF cdata = <<>> THEN FirstIn(s, i, {Lt, Amp})
    ELSE First(s, i, LAMBDA j : CloseTagAt(s, j, cdata))

\* The name of the end tag at i when endtagfind matches it, <<>> otherwise:
\* </, white space, a letter, then letters, digits, -, ., : and _, white
\* space, >.
EndTagNamed(s, a, b) ==
    IF a <= Len(s) /\ s[a] \in Letters /\ GtAt(s, SkipSpaces(s, b))
    THEN Lower(SubSeq(s, a, b - 1)) ELSE <<>>

EndTagNameFrom(s, a) ==
    EndTagNamed(s, a, First(s, a, LAMBDA j : s[j] \notin Letters \cup Digits
                                                 \cup {Minus, Dot, Colon, Ord("_")}))

EndTagName(s, i) == EndTagNameFrom(s, SkipSpaces(s, i + 2))

\* parse_endtag for the </ of position i, whose > is at gt: what to handle
\* and where to go on.
ParseEndTag(s, i, cdata, gt, name) ==
    IF name /= <<>> /\ cdata \in {<<>>, name}
    THEN [kind |-> "end", text |-> name, to |-> gt + 1]
    ELSE IF name /= <<>> \/ cdata /= <<>>
    THEN [kind |-> "data", text |-> SubSeq(s, i, gt), to |-> gt + 1]
    ELSE IF i + 2 <= Len(s) /\ s[i + 2] \in Letters
    THEN [kind |-> "end", text |-> Lower(SubSeq(s, i + 2, TagNameEnd(s, i + 3) - 1)),
          to |-> gt + 1]
    ELSE IF gt = i + 2 THEN [kind |-> "nothing", text |-> <<>>, to |-> gt + 1]
    ELSE [kind |-> "comment", text |-> SubSeq(s, i + 2, gt - 1), to |-> gt + 1]

\* commentclose: -- and > with nothing but white space between.
CommentCloseAt(s, j) == StartsWith(s, j, <<Minus, Minus>>) /\ GtAt(s, SkipSpaces(s, j + 2))

\* parse_comment for the <!-- of position i; to = 0 stands for -1.
CommentUpTo(s, i, close) ==
    IF close > Len(s) THEN [kind |-> "comment", text |-> <<>>, to |-> 0]
    ELSE [kind |-> "comment", text |-> SubSeq(s, i + 4, close - 1),
          to |-> SkipSpaces(s, close + 2) + 1]

ParseComment(s, i) == CommentUpTo(s, i, First(s, i + 4, LAMBDA j : CommentCloseAt(s, j)))

\* Where ] and > close a marked section that starts before k: with a second
\* ] between them if double, white space allowed before each.
SectionClosedFrom(s, second, double) ==
    IF double
    THEN second <= Len(s) /\ s[second] = CloseBracket /\ GtAt(s, SkipSpaces(s, second + 1))
    ELSE GtAt(s, second)

SectionCloseAt(s, j, double) ==
    s[j] = CloseBracket /\ SectionClosedFrom(s, SkipSpaces(s, j + 1), double)

SectionEnd(s, j, double) ==
    IF double THEN SkipSpaces(s, SkipSpaces(s, j + 1) + 1) + 1 ELSE SkipSpaces(s, j + 1) + 1

\* _markedsectionclose and _msmarkedsectionclose: the names of the sections
\* that ]]> closes and of those that ]> closes.
DoubleSections ==
    {Text(<<"t", "e", "m", "p">>), Text(<<"c", "d", "a", "t", "a">>),
     Text(<<"i", "g", "n", "o", "r", "e">>), Text(<<"i", "n", "c", "l", "u", "d", "e">>),
     Text(<<"r", "c", "d", "a", "t", "a">>)}

SingleSections == {Text(<<"i", "f">>), Text(<<"e", "l", "s", "e">>), Text(<<"e", "n", "d", "i", "f">>)}

\* unknown_decl for what stands between <![ and the close: a CData section
\* when it starts with CDATA[ in any case, a Declaration otherwise.  The
\* section name before the [ holds ASCII letters only, for which
\* upper() spells CDATA[ exactly when lower() spells cdata[.
SectionToken(data, to) ==
    IF Len(data) >= 6 /\ Lower(SubSeq(data, 1, 6)) = Text(<<"c", "d", "a", "t", "a", "[">>)
    THEN [kind |-> "cdata", text |-> From(data, 7), to |-> to]
    ELSE [kind |-> "declaration", text |-> data, to |-> to]

SectionUpTo(s, i, double, close) ==
    IF close > Len(s) THEN [kind |-> "comment", text |-> <<>>, to |-> 0]
    ELSE SectionToken(SubSeq(s, i + 3, close - 1), SectionEnd(s, close, double))

SectionOf(s, i, double) ==
    SectionUpTo(s, i, double, First(s, i + 3, LAMBDA j : SectionCloseAt(s, j, double)))

SectionNamed(s, i, name) ==
    IF name \notin DoubleSections \cup SingleSections
    THEN [kind |-> "rejected", text |-> <<>>, to |-> 0]
    ELSE SectionOf(s, i, name \in DoubleSections)

\* parse_marked_section for the <![ of position i, whose name ends before
\* name_end and white space before after: an AssertionError for no name or
\* an unknown one.
MarkedSection(s, i, name_end, after) ==
    IF i + 3 > Len(s) THEN [kind |-> "comment", text |-> <<>>, to |-> 0]
    ELSE IF s[i + 3] \notin Letters THEN [kind |-> "rejected", text |-> <<>>, to |-> 0]
    ELSE IF after > Len(s) THEN [kind |-> "comment", text |-> <<>>, to |-> 0]
    ELSE SectionNamed(s, i, Lower(SubSeq(s, i + 3, name_end - 1)))

MarkedSectionNamedUpTo(s, i, name_end) == MarkedSection(s, i, name_end, SkipSpaces(s, name_end))

\* What < and a character other than a letter or / start: a token that ends
\* at the > of position gt, unfinished when there is none.
UpToGt(s, kind, from, gt) ==
    [kind |-> kind, text |-> SubSeq(s, from, gt - 1), to |-> IF gt > Len(s) THEN 0 ELSE gt + 1]

\* parse_html_declaration and parse_pi for the <! or <? of position i, whose
\* next > is at gt (beyond s when there is none).
ParseDeclaration(s, i, gt) ==
    IF StartsWith(s, i, <<Lt, Question>>) THEN UpToGt(s, "pi", i + 2, gt)
    ELSE IF StartsWith(s, i, <<Lt, Bang, OpenBracket>>)
    THEN MarkedSectionNamedUpTo(s, i,
             First(s, i + 4, LAMBDA j : s[j] \notin Letters \cup Digits \cup {Minus, Dot, Ord("_")}))
    ELSE IF Lower(SubSeq(s, i, Smaller(i + 8, Len(s)))) = Text(<<"<", "!", "d", "o", "c", "t", "y", "p", "e">>)
    THEN UpToGt(s, "doctype", i + 10, FirstIn(s, i + 9, {Gt}))
    ELSE UpToGt(s, "comment", i + 2, gt)

\* charref at the &# of position i: the position of the character that ends
\* the reference, 0 when there is no match.  Decimal digits, or x and
\* hexadecimal digits, then a character that is no hexadecimal digit.
CharRefEndAfter(s, from, after) ==
    IF after > from /\ after <= Len(s) /\ s[after] \notin HexDigits THEN after ELSE 0

CharRefEndFrom(s, hex, from) ==
    CharRefEndAfter(s, from,
                    First(s, from, LAMBDA j : s[j] \notin (IF hex THEN HexDigits ELSE Digits)))

CharRefEndOf(s, i, hex) == CharRefEndFrom(s, hex, IF hex THEN i + 3 ELSE i + 2)

CharRefEnd(s, i) == CharRefEndOf(s, i, i + 2 <= Len(s) /\ s[i + 2] \in {Ord("x"), Ord("X")})

\* BeautifulSoupHTMLParser.handle_charref for the number n: below 256 the
\* character of that byte in windows-1252 when there is one, else the code
\* point, else U+FFFD.
CharRefOutside(n) == IF n < TooLarge THEN <<n>> ELSE <<ReplacementChar>>

CharRefOfByte(n, c) == IF c /= -1 THEN <<c>> ELSE CharRefOutside(n)

CharRefText(n) ==
    IF n >= 128 /\ n < 256 THEN CharRefOfByte(n, SingleByteTables["cp1252"][n - 127])
    ELSE CharRefOutside(n)

\* The number of the reference that ends before position after.
CharRefNumber(s, i, after) ==
    IF s[i + 2] \in {Ord("x"), Ord("X")}
    THEN NumberFrom(SubSeq(s, i + 3, after - 1), 1, 16, 0)
    ELSE NumberFrom(SubSeq(s, i + 2, after - 1), 1, 10, 0)

\* entityref at the & of position i: the position of the character that ends
\* the reference, 0 when there is no match.  A letter, then letters, digits,
\* - and ., then a character that is neither letter nor digit.
EntityRefEndAfter(s, i, after) ==
    IF after <= Len(s) THEN after
    ELSE LargestOr0({j \in (i + 2)..Len(s) : s[j] \in {Minus, Dot}})

EntityRefEnd(s, i) ==
    IF ~(i + 1 <= Len(s) /\ s[i + 1] \in Letters) THEN 0
    ELSE EntityRefEndAfter(s, i, First(s, i + 2, LAMBDA j : s[j] \notin Letters \cup Digits
                                                                \cup {Minus, Dot}))

\* BeautifulSoupHTMLParser.handle_entityref.
EntityRefOr(name, c) == IF c = <<>> THEN <<Amp>> \o name ELSE c

EntityRefText(name) == EntityRefOr(name, NamedCharacters(name, FALSE))

\* Where the text goes on after the reference that the character at after
\* ends: past it when it is a semicolon.
AfterRef(s, after) == IF s[after] = Semicolon THEN after + 1 ELSE after

\* What a token does to the tree: kind says which handler is called.
StringClassOf(kind) ==
    CASE kind = "comment"     -> CommentTag
      [] kind = "doctype"     -> DoctypeTag
      [] kind = "declaration" -> DeclarationTag
      [] kind = "cdata"       -> CDataTag
      [] kind = "pi"          -> PiTag

Handle(b, t) ==
    CASE t.kind = "end"     -> HandleEndTag(b, t.text, TRUE)
      [] t.kind = "data"    -> HandleData(b, t.text)
      [] t.kind = "nothing" -> b
      [] OTHER              -> HandleOther(b, StringClassOf(t.kind), t.text)

\* The token at the < of position i, which no letter follows.
TokenAt(s, i, cdata) ==
    IF StartsWith(s, i, <<Lt, Slash>>)
    THEN IF FirstIn(s, i + 1, {Gt}) > Len(s) THEN [kind |-> "end", text |-> <<>>, to |-> 0]
         ELSE ParseEndTag(s, i, cdata, FirstIn(s, i + 1, {Gt}), EndTagName(s, i))
    ELSE IF StartsWith(s, i, <<Lt, Bang, Minus, Minus>>) THEN ParseComment(s, i)
    ELSE IF StartsWith(s, i, <<Lt, Question>>) \/ StartsWith(s, i, <<Lt, Bang>>)
    THEN ParseDeclaration(s, i, FirstIn(s, i + 2, {Gt}))
    ELSE [kind |-> "data", text |-> <<Lt>>, to |-> IF i < Len(s) THEN i + 1 ELSE -1]

\* Where goahead goes on, at the end of the input, after markup that does
\* not end: past the next >, else at the next <, else one character on.
PastUnfinished(s, i) ==
    IF FirstIn(s, i + 1, {Gt}) <= Len(s) THEN FirstIn(s, i + 1, {Gt}) + 1
    ELSE IF FirstIn(s, i + 1, {Lt}) <= Len(s) THEN FirstIn(s, i + 1, {Lt})
    ELSE i + 1

\* One pass of the loop of goahead ends either with the loop left for good
\* (done, b is what the parser has built) or at the position the next pass
\* starts from.
Left(b) == [done |-> TRUE, i |-> 0, cdata |-> <<>>, b |-> b, end |-> TRUE]

Again(i, cdata, b, end) == [done |-> FALSE, i |-> i, cdata |-> cdata, b |-> b, end |-> end]

\* goahead leaves its loop at position i.  feed() runs goahead(False) and
\* close() runs goahead(True) on what is left; at the end what is left is
\* text, except inside script and style.
Break(s, i, cdata, b, end) ==
    IF ~end THEN Again(i, cdata, b, TRUE)
    ELSE IF i <= Len(s) /\ cdata = <<>> THEN Left(HandleData(b, From(s, i)))
    ELSE Left(b)

\* k < 0: markup that does not end.
Unfinished(s, i, cdata, b, end) ==
    IF ~end THEN Break(s, i, cdata, b, end)
    ELSE Again(PastUnfinished(s, i), cdata,
               HandleData(b, SubSeq(s, i, PastUnfinished(s, i) - 1)), end)

\* After parse_starttag.
\* handle_startendtag closes the element that handle_starttag opened.
StartTagClosed(b, t) == IF t.kind = "startend" THEN HandleEndTag(b, t.tag, TRUE) ELSE b

StartTagHandled(b, t) ==
    StartTagClosed(HandleStartTag(b, t.tag, t.attrs, t.kind /= "startend"), t)

AfterStartTag(s, i, cdata, b, end, t) ==
    IF t.to = 0 THEN Unfinished(s, i, cdata, b, end)
    ELSE IF t.kind = "data" THEN Again(t.to, cdata, HandleData(b, SubSeq(s, i, t.to - 1)), end)
    ELSE Again(t.to,
               IF t.kind = "start" /\ t.tag \in CDataContentElements THEN t.tag ELSE cdata,
               StartTagHandled(b, t), end)

\* After parse_endtag, parse_comment, parse_pi and parse_html_declaration.
AfterToken(s, i, cdata, b, end, t) ==
    IF t.kind = "rejected" THEN Left([b EXCEPT !.rejected = TRUE])
    ELSE IF t.to = 0 THEN Unfinished(s, i, cdata, b, end)
    ELSE IF t.to = -1 THEN Break(s, i, cdata, b, end)
    ELSE Again(t.to, IF t.kind = "end" THEN <<>> ELSE cdata, Handle(b, t), end)

\* At the &# of position i.
AtCharRef(s, i, cdata, b, end, after) ==
    IF after /= 0
    THEN Again(AfterRef(s, after), cdata,
               HandleData(b, CharRefText(CharRefNumber(s, i, after))), end)
    ELSE IF FirstIn(s, i, {Semicolon}) <= Len(s)
    THEN Break(s, i + 2, cdata, HandleData(b, <<Amp, Hash>>), end)
    ELSE Break(s, i, cdata, b, end)

\* At the & of position i, which no # follows.
AtEntityRef(s, i, cdata, b, end, after) ==
    IF after /= 0
    THEN Again(AfterRef(s, after), cdata,
               HandleData(b, EntityRefText(SubSeq(s, i + 1, after - 1))), end)
    ELSE IF i + 1 <= Len(s) /\ s[i + 1] \in Letters
    THEN Break(s, IF end /\ i + 1 = Len(s) THEN i + 1 ELSE i, cdata, b, end)
    ELSE IF i < Len(s) THEN Again(i + 1, cdata, HandleData(b, <<Amp>>), end)
    ELSE Break(s, i, cdata, b, end)

\* At the < or & of position i.
AtMarkup(s, i, cdata, b, end) ==
    IF s[i] = Lt
    THEN IF i < Len(s) /\ s[i + 1] \in Letters
         THEN AfterStartTag(s, i, cdata, b, end, ParseStartTag(s, i))
         ELSE AfterToken(s, i, cdata, b, end, TokenAt(s, i, cdata))
    ELSE IF StartsWith(s, i, <<Amp, Hash>>)
    THEN AtCharRef(s, i, cdata, b, end, CharRefEnd(s, i))
    ELSE AtEntityRef(s, i, cdata, b, end, EntityRefEnd(s, i))

\* Text up to position j, then the markup there.
TextUpTo(s, i, j, cdata, b, end) ==
    IF j > Len(s) /\ cdata /= <<>> THEN Break(s, i, cdata, b, end)
    ELSE IF j > Len(s) THEN Left(HandleData(b, From(s, i)))
    ELSE AtMarkup(s, j, cdata, IF i < j THEN HandleData(b, SubSeq(s, i, j - 1)) ELSE b, end)

\* One pass of the loop of goahead from position i on, inside the script or
\* style element cdata if not <<>>.
GoAheadOnce(s, i, cdata, b, end) ==
    IF i > Len(s) THEN Left(b)
    ELSE TextUpTo(s, i, Interesting(s, i, cdata), cdata, b, end)

RECURSIVE GoAhead(_, _)
\* HTMLParser.goahead: pass after pass from the state at on.
GoAhead(s, at) ==
    IF at.done THEN at.b ELSE GoAhead(s, GoAheadOnce(s, at.i, at.cdata, at.b, at.end))

\* The tree of a builder when the input has ended: every open element is
\* closed.  None stands for ParserRejectedMarkup.
Finished(b) ==
    IF b.rejected THEN None
    ELSE Document(PopTags(EndData(b).stack, 2)[1].kids)

\* BeautifulSoup(text, 'html.parser') (lines 87, 150 and 154).
Parse(text) == Finished(GoAhead(text, Again(1, <<>>, NewBuilder, FALSE)))

\* What EntitySubstitution.substitute_xml writes for &, < and >.
EscapeOf(c) ==
    CASE c = Amp -> Text(<<"&", "a", "m", "p", ";">>)
      [] c = Lt  -> Text(<<"&", "l", "t", ";">>)
      [] c = Gt  -> Text(<<"&", "g", "t", ";">>)

RECURSIVE Escaped(_)
EscapedAt(t, at) ==
    IF at > Len(t) THEN t
    ELSE SubSeq(t, 1, at - 1) \o EscapeOf(t[at]) \o Escaped(From(t, at + 1))

\* EntitySubstitution.substitute_xml, the formatter of str(tag): &, < and >
\* become &amp;, &lt; and &gt;.
Escaped(t) == EscapedAt(t, FirstIn(t, 1, {Amp, Lt, Gt}))

RECURSIVE EscapedQuotes(_)
EscapedQuotesAt(t, at) ==
    IF at > Len(t) THEN t
    ELSE SubSeq(t, 1, at - 1) \o Text(<<"&", "q", "u", "o", "t", ";">>)
         \o EscapedQuotes(From(t, at + 1))

\* value.replace('"', "&quot;").
EscapedQuotes(t) == EscapedQuotesAt(t, FirstIn(t, 1, {Quote}))

\* EntitySubstitution.quoted_attribute_value: between double quotes, between
\* single quotes when the value holds a double quote and no single one.
Quoted(v) ==
    IF FirstIn(v, 1, {Quote}) > Len(v) THEN <<Quote>> \o v \o <<Quote>>
    ELSE IF FirstIn(v, 1, {Apostrophe}) > Len(v) THEN <<Apostrophe>> \o v \o <<Apostrophe>>
    ELSE <<Quote>> \o EscapedQuotes(v) \o <<Quote>>

\* One attribute of a start tag as str(tag) writes it; an attribute without
\* value is one the model does not tell from a missing one.
AttrMarkup(name, v) ==
    IF v = <<>> THEN <<>> ELSE <<32>> \o name \o <<Equals>> \o Quoted(Escaped(v))

\* The attributes of the element e that the model keeps, in the order of
\* their names.
AttrsOf(e) ==
    <<[name |-> Text(<<"a", "l", "t">>), value |-> e.alt],
      [name |-> Text(<<"c", "l", "a", "s", "s">>), value |-> Join(e.class, <<32>>)],
      [name |-> Text(<<"c", "o", "n", "t", "e", "n", "t">>), value |-> e.content],
      [name |-> Text(<<"h", "r", "e", "f">>), value |-> e.href],
      [name |-> Text(<<"i", "d">>), value |-> e.id],
      [name |-> Text(<<"n", "a", "m", "e">>), value |-> e.name],
      [name |-> Text(<<"r", "e", "l">>), value |-> Join(e.rel, <<32>>)]>>

RECURSIVE AttrsMarkupFrom(_, _)
AttrsMarkupFrom(attrs, i) ==
    IF i > Len(attrs) THEN <<>>
    ELSE AttrMarkup(attrs[i].name, attrs[i].value) \o AttrsMarkupFrom(attrs, i + 1)

AttrsMarkup(e) == AttrsMarkupFrom(AttrsOf(e), 1)

RECURSIVE Markup(_, _)
RECURSIVE MarkupAll(_, _, _)
\* The markup of the nodes kids from number i on, below an element called
\* parent.
MarkupAll(kids, i, parent) ==
    IF i > Len(kids) THEN <<>>
    ELSE Markup(kids[i], parent) \o MarkupAll(kids, i + 1, parent)

\* str(tag) of the element node whose start tag begins with start: a void
\* element without contents is written <name/>.
ElementMarkup(node, start) ==
    IF node.kids = <<>> /\ node.tag \in VoidElements THEN start \o Text(<<"/", ">">>)
    ELSE start \o <<Gt>> \o MarkupAll(node.kids, 1, node.tag)
         \o Text(<<"<", "/">>) \o node.tag \o <<Gt>>

\* str(node) for a node below an element called parent: text is escaped
\* except directly in script and style.
Markup(node, parent) ==
    CASE node.tag \in {TextTag, StringTag} ->
             IF parent \in CDataContentElements THEN node.text ELSE Escaped(node.text)
      [] node.tag = CommentTag ->
             Text(<<"<", "!", "-", "-">>) \o node.text \o Text(<<"-", "-", ">">>)
      [] node.tag = CDataTag ->
             Text(<<"<", "!", "[", "C", "D", "A", "T", "A", "[">>) \o node.text
             \o Text(<<"]", "]", ">">>)
      [] node.tag = DoctypeTag ->
             Text(<<"<", "!", "D", "O", "C", "T", "Y", "P", "E", " ">>) \o node.text
             \o <<Gt, 10>>
      [] node.tag = DeclarationTag ->
             Text(<<"<", "?">>) \o node.text \o Text(<<"?", ">">>)
      [] node.tag = PiTag -> Text(<<"<", "?">>) \o node.text \o <<Gt>>
      [] OTHER -> ElementMarkup(node, <<Lt>> \o node.tag \o AttrsMarkup(node))

\* str(soup): the markup of a whole document.
DocumentMarkup(d) == MarkupAll(d.kids, 1, <<>>)

(***************************************************************************)
(* check_title (lines 278-327).                                            *)
(***************************************************************************)
\* Lines 302-323: the result line printed for a title of this length.
TitleBand(title_length, is_chinese_dominant) ==
    IF is_chinese_dominant THEN
        IF title_length < 15 THEN "FAIL"
        ELSE IF title_length < 30 THEN "WARN"
        ELSE IF title_length > 70 THEN "WARN"
        ELSE "PASS"
    ELSE
        IF title_length < 30 THEN "FAIL"
        ELSE IF title_length < 50 THEN "WARN"
        ELSE IF title_length > 65 THEN "WARN"
        ELSE "PASS"

\* Line 327: the value check_title returns for a title of this length.
TitleVerdict(title_length) == 30 <= title_length /\ title_length <= 70

check_title(s) ==
    LET found == FindAll(s.kids, {Text(<<"t", "i", "t", "l", "e">>)})
    IN  IF found = <<>> THEN [status |-> "FAIL", verdict |-> FALSE, detail |-> "missing"]
        ELSE
        LET title_content == GetText(found[1], <<>>)
            title_length  == Len(title_content)
            is_chinese_dominant == 2 * ChineseCount(title_content) > title_length
        IN  [status |-> TitleBand(title_length, is_chinese_dominant),
             verdict |-> TitleVerdict(title_length),
             detail |-> IF is_chinese_dominant THEN "chinese" ELSE "english"]

(***************************************************************************)
(* check_meta_description (lines 220-276).                                 *)
(***************************************************************************)
\* Lines 252-273: the result line printed for a description of this length.
DescriptionBand(desc_length, is_chinese_dominant) ==
    IF is_chinese_dominant THEN
        IF desc_length < 50 THEN "FAIL"
        ELSE IF desc_length < 100 THEN "WARN"
        ELSE IF desc_length > 200 THEN "WARN"
        ELSE "PASS"
    ELSE
        IF desc_length < 120 THEN "FAIL"
        ELSE IF desc_length < 140 THEN "WARN"
        ELSE IF desc_length > 180 THEN "WARN"
        ELSE "PASS"

\* A mutant of DescriptionVerdict: the recommended lengths the function prints
\* (lines 262, 273) instead of the accepted ones.
DescriptionVerdict_Recommended(desc_length, is_chinese_dominant) ==
    IF is_chinese_dominant THEN 120 <= desc_length /\ desc_length <= 160
    ELSE 150 <= desc_length /\ desc_length <= 160

\* Line 276: the value check_meta_description returns.
DescriptionVerdict(desc_length, is_chinese_dominant) ==
    IF is_chinese_dominant THEN 100 <= desc_length /\ desc_length <= 200
    ELSE 140 <= desc_length /\ desc_length <= 180

check_meta_description(s) ==
    LET found == SelectSeq(FindAll(s.kids, {Text(<<"m", "e", "t", "a">>)}), LAMBDA e : e.name = Text(<<"d", "e", "s", "c", "r", "i", "p", "t", "i", "o", "n">>))
    IN  IF found = <<>> THEN [status |-> "FAIL", verdict |-> FALSE, detail |-> "missing"]
        ELSE
        LET desc_content == StripText(found[1].content)
            desc_length  == Len(desc_content)
            is_chinese_dominant == 3 * ChineseCount(desc_content) > desc_length
        IN  IF desc_content = <<>>
            THEN [status |-> "WARN", verdict |-> FALSE, detail |-> "empty"]
            ELSE [status |-> DescriptionBand(desc_length, is_chinese_dominant),
                  verdict |-> DescriptionVerdict(desc_length, is_chinese_dominant),
                  detail |-> IF is_chinese_dominant THEN "chinese" ELSE "english"]

(***************************************************************************)
(* check_h1 (lines 329-438).                                               *)
(***************************************************************************)
\* Line 406: the stop words, as code points.
StopWords == {30340, 21644, 19982, 21450, 25110, 22312, 26159, 26377, 20102, 21527, 21602, 21543, 21834}

\* Lines 402-413: extract_key_phrases.
extract_key_phrases(text) ==
    LET words == SelectSeq(text, LAMBDA c : c \notin StopWords)
        n     == Len(words)
    IN  (IF n > 2 THEN <<SubSeq(words, 1, 3)>> ELSE <<>>) \o
        (IF n > 4 THEN <<SubSeq(words, 3, 5)>> ELSE <<>>)

\* Lines 393-433: how the first H1 relates to the page title.
H1TitleRelation(primary_h1, page_title) ==
    IF primary_h1 = page_title THEN "identical"
    ELSE IF Contains(page_title, primary_h1) \/ Contains(primary_h1, page_title)
    THEN "containment"
    ELSE LET h1_phrases    == extract_key_phrases(primary_h1)
             title_phrases == extract_key_phrases(page_title)
         IN  IF \E i \in 1..Len(h1_phrases), j \in 1..Len(title_phrases) :
                    /\ Len(h1_phrases[i]) >= 2
                    /\ Len(title_phrases[j]) >= 2
                    /\ \/ Contains(title_phrases[j], h1_phrases[i])
                       \/ Contains(h1_phrases[i], title_phrases[j])
             THEN "overlap"
             ELSE "weak"

\* Lines 367-374: the state printed for one H1.
H1LengthState(h1_length) ==
    IF h1_length = 0 THEN "FAIL"
    ELSE IF h1_length < 10 THEN "WARN"
    ELSE IF h1_length > 100 THEN "WARN"
    ELSE "PASS"

\* A mutant of H1Verdict: any H1 at all is enough.
H1Verdict_AtLeastOne(h1_count) == h1_count >= 1

\* Line 438: the value check_h1 returns when the page has an H1.
H1Verdict(h1_count) == h1_count = 1

\* The status is the result line printed: FAIL for no H1 (line 346), WARN for
\* several (line 378), none for exactly one.
check_h1(s) ==
    LET h1_tags     == FindAll(s.kids, {Text(<<"h", "1">>)})
        h1_count    == Len(h1_tags)
        titles      == FindAll(s.kids, {Text(<<"t", "i", "t", "l", "e">>)})
        page_title  == IF titles = <<>> THEN <<>> ELSE GetText(titles[1], <<>>)
        h1_contents == [i \in 1..h1_count |-> GetText(h1_tags[i], <<>>)]
    IN  IF h1_count = 0
        THEN [status |-> "FAIL", verdict |-> FALSE,
              detail |-> [relation |-> "not_checked", each |-> <<>>]]
        ELSE [status  |-> IF h1_count > 1 THEN "WARN" ELSE "NONE",
              verdict |-> H1Verdict(h1_count),
              detail  |-> [relation |-> IF page_title /= <<>>
                                        THEN H1TitleRelation(h1_contents[1], page_title)
                                        ELSE "not_checked",
                           each |-> [i \in 1..h1_count |->
                                        H1LengthState(Len(h1_contents[i]))]]]

(***************************************************************************)
(* check_image_alt (lines 440-491).                                        *)
(***************************************************************************)
\* A mutant of ImageAltBand: exactly 20% and exactly 50% fall in the lower band.
ImageAltBand_Inclusive(missing_alt_count, total_images) ==
    IF missing_alt_count = 0 THEN [status |-> "PASS", detail |-> "all_have_alt"]
    ELSE IF 100 * missing_alt_count <= 20 * total_images
    THEN [status |-> "WARN", detail |-> "minor"]
    ELSE IF 100 * missing_alt_count <= 50 * total_images
    THEN [status |-> "WARN", detail |-> "moderate"]
    ELSE [status |-> "FAIL", detail |-> "severe"]

\* Lines 465-477: the result printed for missing_alt_count of total_images.
\* missing_percentage is (missing_alt_count / total_images) * 100 in floating
\* point; below 20 and below 50 are decided here on the exact integers.
ImageAltBand(missing_alt_count, total_images) ==
    IF missing_alt_count = 0 THEN [status |-> "PASS", detail |-> "all_have_alt"]
    ELSE IF 100 * missing_alt_count < 20 * total_images
    THEN [status |-> "WARN", detail |-> "minor"]
    ELSE IF 100 * missing_alt_count < 50 * total_images
    THEN [status |-> "WARN", detail |-> "moderate"]
    ELSE [status |-> "FAIL", detail |-> "severe"]

check_image_alt(s) ==
    LET all_images         == FindAll(s.kids, {Text(<<"i", "m", "g">>)})
        total_images       == Len(all_images)
        images_without_alt == SelectSeq(all_images, LAMBDA img : img.alt = <<>>)
        missing_alt_count  == Len(images_without_alt)
        band               == ImageAltBand(missing_alt_count, total_images)
    IN  IF total_images = 0
        THEN [status |-> "INFO", verdict |-> TRUE, detail |-> "no_images"]
        ELSE [status |-> band.status, verdict |-> missing_alt_count = 0,
              detail |-> band.detail]

(***************************************************************************)
(* check_canonical (lines 493-536) and urllib.parse.urlparse, as far as    *)
(* normalize_url reads it: the netloc and the path, or the ValueError of a  *)
(* netloc with brackets that hold no IPv6 address.                         *)
(***************************************************************************)
SchemeChars == Letters \cup Digits \cup {Ord("+"), Ord("-"), Dot}
UsesParams == {<<>>, Text(<<"f", "t", "p">>), Text(<<"h", "d", "l">>), Text(<<"p", "r", "o", "s", "p", "e", "r", "o">>), Text(<<"h", "t", "t", "p">>), Text(<<"i", "m", "a", "p">>), Text(<<"h", "t", "t", "p", "s">>), Text(<<"s", "h", "t", "t", "p">>), Text(<<"r", "t", "s", "p">>), Text(<<"r", "t", "s", "p", "s">>), Text(<<"r", "t", "s", "p", "u">>), Text(<<"s", "i", "p">>), Text(<<"s", "i", "p", "s">>), Text(<<"m", "m", "s">>), Text(<<"s", "f", "t", "p">>), Text(<<"t", "e", "l">>)}

\* The first position of character c in s at or after start; 0 when there is none.
Find(s, c, start) ==
    LET at == {i \in start..Len(s) : s[i] = c}
    IN  IF at = {} THEN 0 ELSE CHOOSE i \in at : \A j \in at : i <= j

\* The last position of character c in s; 0 when there is none.
RFind(s, c) ==
    LET at == {i \in 1..Len(s) : s[i] = c}
    IN  IF at = {} THEN 0 ELSE CHOOSE i \in at : \A j \in at : i >= j

\* urlsplit's first steps: the characters U+0000 to U+0020 stripped from the
\* front, tab and line breaks removed everywhere.
UrlCleaned(u) ==
    LET lead == {i \in 1..Len(u) : u[i] > 32}
        from == IF lead = {} THEN Len(u) + 1 ELSE CHOOSE i \in lead : \A j \in lead : i <= j
    IN  SelectSeq(SubSeq(u, from, Len(u)), LAMBDA c : c \notin {9, 10, 13})

\* _splitparams: the path without the parameters of its last segment.
SplitParams(p) ==
    LET i == IF Find(p, Slash, 1) > 0 THEN Find(p, Semicolon, RFind(p, Slash)) ELSE Find(p, Semicolon, 1)
    IN  IF i = 0 THEN p ELSE SubSeq(p, 1, i - 1)

\* urlsplit: the scheme, when the text before the first colon is one, and the
\* rest.
SplitScheme(c) ==
    IF /\ Find(c, Colon, 1) > 1
       /\ c[1] \in Letters
       /\ \A k \in 1..(Find(c, Colon, 1) - 1) : c[k] \in SchemeChars
    THEN [scheme |-> Lower(SubSeq(c, 1, Find(c, Colon, 1) - 1)),
          rest   |-> SubSeq(c, Find(c, Colon, 1) + 1, Len(c))]
    ELSE [scheme |-> <<>>, rest |-> c]

\* The position that ends the netloc of c (which starts with //): the first of
\* / ? # after it, or the end.
NetlocEnd(c) ==
    IF \E i \in 3..Len(c) : c[i] \in {Slash, Question, Hash}
    THEN CHOOSE i \in 3..Len(c) :
             /\ c[i] \in {Slash, Question, Hash}
             /\ \A j \in 3..(i - 1) : c[j] \notin {Slash, Question, Hash}
    ELSE Len(c) + 1

\* urlsplit and _splitnetloc: the netloc after a leading //, and the rest.
SplitNetloc(c) ==
    IF Len(c) >= 2 /\ c[1] = Slash /\ c[2] = Slash
    THEN [netloc |-> SubSeq(c, 3, NetlocEnd(c) - 1),
          rest   |-> SubSeq(c, NetlocEnd(c), Len(c))]
    ELSE [netloc |-> <<>>, rest |-> c]

\* str.split(ch, 1)[0] when ch is in c, else c.
Before(c, ch) == IF Find(c, ch, 1) > 0 THEN SubSeq(c, 1, Find(c, ch, 1) - 1) ELSE c

RECURSIVE Split(_, _)
\* str.split(sep) for a separator of one character.
Split(s, sep) ==
    IF Find(s, sep, 1) = 0 THEN <<s>>
    ELSE <<SubSeq(s, 1, Find(s, sep, 1) - 1)>>
         \o Split(SubSeq(s, Find(s, sep, 1) + 1, Len(s)), sep)

RECURSIVE DecimalValue(_)
\* int(p) of a string of decimal digits.
DecimalValue(p) ==
    IF p = <<>> THEN 0
    ELSE 10 * DecimalValue(SubSeq(p, 1, Len(p) - 1)) + (p[Len(p)] - Ord("0"))


\* ipaddress: whether p is an octet of an IPv4 address (_parse_octet).
IsOctet(p) ==
    /\ Len(p) >= 1 /\ Len(p) <= 3
    /\ \A i \in 1..Len(p) : p[i] \in Digits
    /\ (Len(p) > 1 => p[1] /= Ord("0"))
    /\ DecimalValue(p) <= 255

\* ipaddress: whether IPv4Address(s) accepts s.
IsIPv4(s) == Len(Split(s, Dot)) = 4 /\ \A i \in 1..4 : IsOctet(Split(s, Dot)[i])

\* ipaddress: whether p is a group of an IPv6 address (_parse_hextet).
IsHextet(p) == Len(p) >= 1 /\ Len(p) <= 4 /\ \A i \in 1..Len(p) : p[i] \in HexDigits

\* IPv6Address._ip_int_from_string on the groups, a trailing IPv4 address
\* already replaced by two groups: at most one empty group inside (the ::),
\* an empty first or last group only next to it, eight groups without it.
IsIPv6Groups(parts) ==
    LET n     == Len(parts)
        skips == {i \in 2..(n - 1) : parts[i] = <<>>}
    IN  /\ n <= 9
        /\ Cardinality(skips) <= 1
        /\ IF skips /= {}
           THEN LET skip == CHOOSE i \in skips : TRUE
                    hi   == IF parts[1] = <<>> THEN skip - 2 ELSE skip - 1
                    lo   == IF parts[n] = <<>> THEN n - skip - 1 ELSE n - skip
                IN  /\ parts[1] = <<>> => hi = 0
                    /\ parts[n] = <<>> => lo = 0
                    /\ 8 - (hi + lo) >= 1
                    /\ \A i \in 1..hi : IsHextet(parts[i])
                    /\ \A i \in (n - lo + 1)..n : IsHextet(parts[i])
           ELSE n = 8 /\ \A i \in 1..n : IsHextet(parts[i])

\* Whether IPv6Address(s) accepts s without its scope.
IsIPv6Address(s) ==
    LET parts == Split(s, Colon)
        n     == Len(parts)
    IN  /\ n >= 3
        /\ IF Find(parts[n], Dot, 1) > 0
           THEN /\ IsIPv4(parts[n])
                /\ IsIPv6Groups(SubSeq(parts, 1, n - 1) \o <<Text(<<"0">>), Text(<<"0">>)>>)
           ELSE IsIPv6Groups(parts)

\* Whether IPv6Address(s) accepts s: the address, and after a % a scope that is
\* not empty and holds no further %.
IsIPv6(s) ==
    IF Find(s, Percent, 1) = 0 THEN IsIPv6Address(s)
    ELSE /\ Find(s, Percent, 1) < Len(s)
         /\ Find(s, Percent, Find(s, Percent, 1) + 1) = 0
         /\ IsIPv6Address(SubSeq(s, 1, Find(s, Percent, 1) - 1))

\* The IPvFuture form v<hex digits>.<anything> of _check_bracketed_host.
IsIPvFuture(s) ==
    /\ Find(s, Dot, 1) >= 3
    /\ Find(s, Dot, 1) < Len(s)
    /\ \A i \in 2..(Find(s, Dot, 1) - 1) : s[i] \in HexDigits

\* _check_bracketed_host: whether the host between the brackets passes.
BracketedHostOk(hostname) ==
    IF hostname /= <<>> /\ hostname[1] = Ord("v") THEN IsIPvFuture(hostname)
    ELSE IsIPv6(hostname)

\* netloc.partition('[')[2].partition(']')[0].
BracketedHost(netloc) ==
    Before(SubSeq(netloc, Find(netloc, OpenBracket, 1) + 1, Len(netloc)), CloseBracket)

\* The characters whose NFKC normalisation holds one of / ? # @ and :, such as
\* U+2100 (a/c) and U+FF0F (the fullwidth solidus).  No character composes
\* with one of the five, so that the normalised netloc holds one of them
\* exactly when the netloc holds one of these.
NfkcDelimiters ==
    {8263, 8264, 8265, 8448, 8449, 8453, 8454, 10868, 65043, 65046, 65109,
     65110, 65119, 65131, 65283, 65295, 65306, 65311, 65312}

\* _checknetloc: whether the netloc passes.
ChecknetlocOk(netloc) == \A i \in 1..Len(netloc) : netloc[i] \notin NfkcDelimiters

\* urlsplit's checks of the netloc: the exception it raises, if any.
NetlocError(netloc) ==
    IF (Find(netloc, OpenBracket, 1) > 0) /= (Find(netloc, CloseBracket, 1) > 0)
    THEN "ValueError"
    ELSE IF Find(netloc, OpenBracket, 1) > 0 /\ ~BracketedHostOk(BracketedHost(netloc))
    THEN "ValueError"
    ELSE IF ~ChecknetlocOk(netloc) THEN "ValueError"
    ELSE "none"

\* urlparse: the parameters leave the path under the schemes of uses_params.
PathOf(scheme, p) ==
    IF scheme \in UsesParams /\ Find(p, Semicolon, 1) > 0 THEN SplitParams(p) ELSE p

UrlParts(scheme, n) ==
    [exc |-> NetlocError(n.netloc), scheme |-> scheme, netloc |-> n.netloc,
     path |-> PathOf(scheme, Before(Before(n.rest, Hash), Question))]

UrlAfterScheme(s) == UrlParts(s.scheme, SplitNetloc(s.rest))

\* urlparse(u): the scheme, the netloc and the path, or the exception raised
\* (exc).
urlparse(u) == UrlAfterScheme(SplitScheme(UrlCleaned(u)))

\* str.rstrip('/').
RStripSlash(p) ==
    LET keep == {i \in 1..Len(p) : p[i] /= Slash}
    IN  IF keep = {} THEN <<>>
        ELSE SubSeq(p, 1, CHOOSE i \in keep : \A j \in keep : i >= j)

\* Lines 519-523.
\* A mutant of NetlocAndPath: the trailing slashes stay.
NetlocAndPath_KeepSlash(parsed) ==
    [exc |-> parsed.exc, text |-> parsed.netloc \o parsed.path]

\* Line 523, or the exception of line 521.
NetlocAndPath(parsed) ==
    [exc |-> parsed.exc, text |-> parsed.netloc \o RStripSlash(parsed.path)]

normalize_url(u) == NetlocAndPath(urlparse(u))

\* Lines 525-536: the two normalised URLs compared; an exception of either
\* call of normalize_url leaves check_canonical.
CompareNormalized(current_normalized, canonical_normalized) ==
    IF current_normalized.exc /= "none" \/ canonical_normalized.exc /= "none"
    THEN [status |-> "RAISED", verdict |-> FALSE, detail |-> "ValueError"]
    ELSE IF current_normalized.text = canonical_normalized.text
    THEN [status |-> "PASS", verdict |-> TRUE, detail |-> "self"]
    ELSE [status |-> "WARN", verdict |-> FALSE, detail |-> "elsewhere"]

check_canonical(s, current_url) ==
    LET found == SelectSeq(FindAll(s.kids, {Text(<<"l", "i", "n", "k">>)}), LAMBDA e : HasToken(e.rel, Text(<<"c", "a", "n", "o", "n", "i", "c", "a", "l">>)))
    IN  IF found = <<>> THEN [status |-> "WARN", verdict |-> FALSE, detail |-> "missing"]
        ELSE
        LET canonical_url == StripText(found[1].href)
        IN  IF canonical_url = <<>>
            THEN [status |-> "FAIL", verdict |-> FALSE, detail |-> "empty_href"]
            ELSE CompareNormalized(normalize_url(current_url),
                                   normalize_url(canonical_url))

(***************************************************************************)
(* check_initial_content (lines 132-218).                                  *)
(***************************************************************************)
\* Lines 157-159: the tags removed from the working copy.
RemovedTags == {Text(<<"s", "c", "r", "i", "p", "t">>), Text(<<"s", "t", "y", "l", "e">>), Text(<<"n", "o", "s", "c", "r", "i", "p", "t">>), Text(<<"i", "f", "r", "a", "m", "e">>), Text(<<"n", "a", "v">>), Text(<<"h", "e", "a", "d", "e", "r">>), Text(<<"f", "o", "o", "t", "e", "r">>),
                Text(<<"a", "s", "i", "d", "e">>), Text(<<"f", "o", "r", "m">>), Text(<<"b", "u", "t", "t", "o", "n">>), Text(<<"i", "n", "p", "u", "t">>)}

\* Lines 163-165: nav_selectors, in order.
nav_selectors ==
    << [kind |-> "tag",   name |-> Text(<<"n", "a", "v">>)],
       [kind |-> "class", name |-> Text(<<"n", "a", "v", "i", "g", "a", "t", "i", "o", "n">>)],
       [kind |-> "class", name |-> Text(<<"n", "a", "v", "b", "a", "r">>)],
       [kind |-> "class", name |-> Text(<<"m", "e", "n", "u">>)],
       [kind |-> "id",    name |-> Text(<<"n", "a", "v">>)],
       [kind |-> "id",    name |-> Text(<<"n", "a", "v", "i", "g", "a", "t", "i", "o", "n">>)],
       [kind |-> "id",    name |-> Text(<<"m", "e", "n", "u">>)],
       [kind |-> "class", name |-> Text(<<"h", "e", "a", "d", "e", "r">>)],
       [kind |-> "class", name |-> Text(<<"f", "o", "o", "t", "e", "r">>)],
       [kind |-> "class", name |-> Text(<<"s", "i", "d", "e", "b", "a", "r">>)] >>

\* Line 184: the words that mark a content class.
ContentWords == {Text(<<"c", "o", "n", "t", "e", "n", "t">>), Text(<<"p", "o", "s", "t">>), Text(<<"a", "r", "t", "i", "c", "l", "e">>),
                 Text(<<"m", "a", "i", "n">>), Text(<<"e", "n", "t", "r", "y">>)}

\* Whether an element is one a selector (or the list of removed tags) names.
Matches(e, sel) ==
    CASE sel.kind = "tags"  -> e.tag \in sel.name
      [] sel.kind = "tag"   -> e.tag = sel.name
      [] sel.kind = "class" -> \E i \in 1..Len(e.class) : e.class[i] = sel.name
      [] sel.kind = "id"    -> e.id = sel.name

RECURSIVE Decompose(_, _)
\* kids after tag.decompose() of every element below that matches sel.
Decompose(kids, sel) ==
    IF kids = <<>> THEN <<>>
    ELSE LET h == Head(kids)
         IN  (IF Matches(h, sel) THEN <<>>
              ELSE <<[h EXCEPT !.kids = Decompose(h.kids, sel)]>>)
             \o Decompose(Tail(kids), sel)

RECURSIVE DecomposeEach(_, _, _)
\* Lines 167-169: the selectors applied one after the other, from number i;
\* where nothing is left there is nothing to select.
DecomposeEach(kids, sels, i) ==
    IF kids = <<>> \/ i > Len(sels) THEN kids
    ELSE DecomposeEach(Decompose(kids, sels[i]), sels, i + 1)

\* A mutant of BodyWorkingCopy: the removals are made in the caller's body.
BodyWorkingCopy_Shared(body) == [exc |-> "none", kids |-> <<body>>, shared |-> TRUE]

\* The working copy a parse gives: its elements, or the ParserRejectedMarkup
\* the constructor raises when the parser rejects the markup.
WorkingCopyOf(parsed) ==
    [exc |-> IF parsed = None THEN "ParserRejectedMarkup" ELSE "none",
     kids |-> parsed.kids, shared |-> FALSE]

\* Lines 150, 154: BeautifulSoup(str(body), 'html.parser'), the working copy:
\* the parse of the markup of body, which the parser may reject although it
\* accepted the document (a declaration is written out as <?...?>, and what
\* it holds is then read as markup).  shared says whether the elements are
\* the caller's own objects (they are not: the tree is built anew from text).
BodyWorkingCopy(body) == WorkingCopyOf(Parse(Markup(body, <<>>)))

\* The caller's document once the working copy has been stripped down to
\* stripped: untouched, unless the working copy shares the caller's elements.
CallerDocumentAfter(s, temp_body, stripped) ==
    IF ~temp_body.shared THEN s
    ELSE LET at    == {i \in 1..Len(s.kids) : s.kids[i].tag = Text(<<"b", "o", "d", "y">>)}
             first == CHOOSE i \in at : \A j \in at : i <= j
         IN  IF at = {} THEN s
             ELSE Document(SubSeq(s.kids, 1, first - 1) \o stripped
                           \o SubSeq(s.kids, first + 1, Len(s.kids)))

\* Line 190: the paragraphs whose stripped text is longer than 50 characters.
MeaningfulParagraphs(body) ==
    SelectSeq(FindAll(body.kids, {Text(<<"p">>)}), LAMBDA p : Len(GetText(p, <<>>)) > 50)

\* Lines 181-186: has_content_structure.
HasContentStructure(body) ==
    \/ FindAll(body.kids, {Text(<<"a", "r", "t", "i", "c", "l", "e">>), Text(<<"m", "a", "i", "n">>)}) /= <<>>
    \/ \E e \in {Descendants(body.kids)[i] : i \in 1..Len(Descendants(body.kids))} :
          \E i \in 1..Len(e.class) :
              \E word \in ContentWords : Contains(Lower(e.class[i]), word)

\* A mutant of ContentVerdict: the thin-content rule stops at 150 characters.
ContentVerdict_ThinBelow150(text_length, meaningful, has_content_structure) ==
    IF text_length < 100
    THEN [status |-> "FAIL", verdict |-> FALSE, detail |-> "very_little_text"]
    ELSE IF text_length < 150 /\ meaningful < 2
    THEN [status |-> "WARN", verdict |-> FALSE, detail |-> "thin_content"]
    ELSE IF has_content_structure \/ meaningful >= 2
    THEN [status |-> "PASS", verdict |-> TRUE, detail |-> "substantial"]
    ELSE [status |-> "WARN", verdict |-> text_length >= 200,
          detail |-> "needs_further_check"]

\* Lines 193-218: the verdict.  The status is the level of the result line the
\* branch prints, the detail names the branch.
ContentVerdict(text_length, meaningful, has_content_structure) ==
    IF text_length < 100
    THEN [status |-> "FAIL", verdict |-> FALSE, detail |-> "very_little_text"]
    ELSE IF text_length < 300 /\ meaningful < 2
    THEN [status |-> "WARN", verdict |-> FALSE, detail |-> "thin_content"]
    ELSE IF has_content_structure \/ meaningful >= 2
    THEN [status |-> "PASS", verdict |-> TRUE, detail |-> "substantial"]
    ELSE [status |-> "WARN", verdict |-> text_length >= 200,
          detail |-> "needs_further_check"]

\* `body` as lines 181-190 see it.
BodyNow(body, temp_body, stripped) ==
    IF ~temp_body.shared THEN body
    ELSE IF stripped = <<>> THEN El(Text(<<"b", "o", "d", "y">>)) ELSE stripped[1]

\* Lines 176-218, with the length of the visible text.
ContentMeasured(s, temp_body, stripped, body_now, text_length) ==
    [result |-> ContentVerdict(text_length,
                               Len(MeaningfulParagraphs(body_now)),
                               HasContentStructure(body_now)),
     text_length |-> text_length,
     soup |-> CallerDocumentAfter(s, temp_body, stripped)]

\* Lines 172-175: visible_text and text_length of the stripped working copy.
ContentStripped(s, body, temp_body, stripped) ==
    ContentMeasured(s, temp_body, stripped, BodyNow(body, temp_body, stripped),
                    Len(Join(StrippedStrings(stripped), <<32>>)))

\* Lines 150-169: the exception of line 150 leaves check_initial_content;
\* otherwise the removals in the working copy temp_body.
ContentOfCopy(s, body, temp_body) ==
    IF temp_body.exc /= "none"
    THEN [result |-> [status |-> "RAISED", verdict |-> FALSE, detail |-> temp_body.exc],
          text_length |-> 0, soup |-> s]
    ELSE ContentStripped(s, body, temp_body,
                         DecomposeEach(
                             Decompose(temp_body.kids, [kind |-> "tags", name |-> RemovedTags]),
                             nav_selectors, 1))

\* Lines 139-154: soup.find('body') found bodies.
ContentOfBodies(s, bodies) ==
    IF bodies = <<>>
    THEN [result |-> [status |-> "WARN", verdict |-> FALSE, detail |-> "no_body"],
          text_length |-> 0, soup |-> s]
    ELSE ContentOfCopy(s, bodies[1], BodyWorkingCopy(bodies[1]))

\* check_initial_content: what it returns and prints (result) or the exception
\* that leaves it (status RAISED, nothing is returned), the length it
\* measured, and the caller's document as the call leaves it.
check_initial_content(s) == ContentOfBodies(s, FindAll(s.kids, {Text(<<"b", "o", "d", "y">>)}))

(***************************************************************************)
(* fetch_and_parse (lines 28-109) and main (lines 538-595).                *)
(***************************************************************************)
NoContent == [exc |-> "none", text |-> <<>>]

\* Lines 87 and 107-109: BeautifulSoup(content, 'html.parser'), or None when the
\* encoding block raised or the parser rejected the markup.
ParseOrNone(c) == [content |-> c, soup |-> IF c.exc /= "none" THEN None ELSE Parse(c.text)]

\* fetch_and_parse: requests.get raises r.error or answers r; the encoding is
\* resolved; any exception ends in `return None` (lines 89-109); otherwise the
\* decoded text is parsed.
fetch_and_parse(u, r, detected) ==
    IF r.error /= "none" THEN [content |-> NoContent, soup |-> None]
    ELSE ParseOrNone(ResolveEncoding(r, u, detected))

\* Lines 541-548.
blocked_sites == <<Text(<<"b", "b", "c", ".", "c", "o", "m">>), Text(<<"w", "i", "k", "i", "p", "e", "d", "i", "a", ".", "o", "r", "g">>), Text(<<"t", "w", "i", "t", "t", "e", "r", ".", "c", "o", "m">>),
                   Text(<<"f", "a", "c", "e", "b", "o", "o", "k", ".", "c", "o", "m">>), Text(<<"g", "o", "o", "g", "l", "e", ".", "c", "o", "m">>), Text(<<"y", "o", "u", "t", "u", "b", "e", ".", "c", "o", "m">>)>>

\* The sequences over S of length at most n.
SeqsUpTo(S, n) == UNION {[1..k -> S] : k \in 0..n}

\* What the user may type at the prompt of line 559.
Answers == {Text(<<"y">>), Text(<<"Y">>), Text(<<"n">>), <<>>}

\* Standard input: the lines it holds before it ends, MaxLines at most.
MaxLines == 2
Stdins == SeqsUpTo(Answers, MaxLines)

AnalyzerOrder == <<"check_initial_content", "check_title", "check_meta_description",
                   "check_h1", "check_image_alt", "check_canonical">>

NotRun == [status |-> "NOT_RUN", verdict |-> FALSE, detail |-> "not_run"]

\* Lines 581-587: where main goes after check_initial_content returned.
AfterContentCheck(is_content_visible) == "check_title"

\* Where main goes from the prompts, the k-th of which reads line k of stdin:
\* refused are the prompts that do not read a y.  The first of them ends
\* main: with EOFError, which input() raises at the end of input and nothing
\* catches, or by the return of line 561.
AfterPrompts(stdin, refused) ==
    IF refused = {} THEN "fetch"
    ELSE IF (CHOOSE k \in refused : \A m \in refused : k <= m) > Len(stdin) THEN "raised"
    ELSE "done"

\* Lines 550-561 for a URL that names `asked` of the blocked sites: one
\* prompt per site, in the order of the list, each answered by the next line
\* of stdin; any answer but y (in either case) ends main.
PromptsOutcome(asked, stdin) ==
    AfterPrompts(stdin, {k \in 1..asked : k > Len(stdin) \/ Lower(stdin[k]) /= Text(<<"y">>)})

\* Lines 550-561.
ConfirmBlockedSites ==
    /\ pc = "start"
    /\ \E stdin \in Stdins :
           pc' = PromptsOutcome(
                     Cardinality({i \in 1..Len(blocked_sites) :
                                      Contains(Lower(url), blocked_sites[i])}),
                     stdin)
    /\ UNCHANGED <<url, response, page, content, soup, calls, ret>>

\* Lines 567-577.
Fetch ==
    /\ pc = "fetch"
    /\ \E detected \in DetectionsFor(response) :
           \E f \in {fetch_and_parse(url, response, detected)} :
               /\ content' = f.content
               /\ soup' = f.soup
               /\ page' = f.soup
               /\ pc' = IF f.soup = None THEN "done" ELSE "check_initial_content"
    /\ UNCHANGED <<url, response, calls, ret>>

\* Lines 581-584: the call, which an exception of check_initial_content ends
\* main from.
CheckInitialContent ==
    /\ pc = "check_initial_content"
    /\ \E r \in {check_initial_content(soup)} :
           /\ ret' = [ret EXCEPT !["check_initial_content"] =
                         [status |-> r.result.status, verdict |-> r.result.verdict,
                          detail |-> r.result.detail, text_length |-> r.text_length]]
           /\ soup' = r.soup
           /\ pc' = IF r.result.status = "RAISED" THEN "raised"
                    ELSE AfterContentCheck(r.result.verdict)
    /\ calls' = Append(calls, "check_initial_content")
    /\ UNCHANGED <<url, response, page, content>>

\* Line 587.
CheckTitle ==
    /\ pc = "check_title"
    /\ ret' = [ret EXCEPT !["check_title"] = check_title(soup)]
    /\ calls' = Append(calls, "check_title")
    /\ pc' = "check_meta_description"
    /\ UNCHANGED <<url, response, page, content, soup>>

\* Line 588.
CheckMetaDescription ==
    /\ pc = "check_meta_description"
    /\ ret' = [ret EXCEPT !["check_meta_description"] = check_meta_description(soup)]
    /\ calls' = Append(calls, "check_meta_description")
    /\ pc' = "check_h1"
    /\ UNCHANGED <<url, response, page, content, soup>>

\* Line 589.
CheckH1 ==
    /\ pc = "check_h1"
    /\ ret' = [ret EXCEPT !["check_h1"] = check_h1(soup)]
    /\ calls' = Append(calls, "check_h1")
    /\ pc' = "check_image_alt"
    /\ UNCHANGED <<url, response, page, content, soup>>

\* Line 590.
CheckImageAlt ==
    /\ pc = "check_image_alt"
    /\ ret' = [ret EXCEPT !["check_image_alt"] = check_image_alt(soup)]
    /\ calls' = Append(calls, "check_image_alt")
    /\ pc' = "check_canonical"
    /\ UNCHANGED <<url, response, page, content, soup>>

\* Lines 591-595.
CheckCanonical ==
    /\ pc = "check_canonical"
    /\ \E r \in {check_canonical(soup, url)} :
           /\ ret' = [ret EXCEPT !["check_canonical"] = r]
           /\ pc' = IF r.status = "RAISED" THEN "raised" ELSE "done"
    /\ calls' = Append(calls, "check_canonical")
    /\ UNCHANGED <<url, response, page, content, soup>>

(***************************************************************************)
(* Inputs.                                                                 *)
(***************************************************************************)
\* n times the character c.
Rep(c, n) == [i \in 1..n |-> c]

Title(t) == [El(Text(<<"t", "i", "t", "l", "e">>)) EXCEPT !.kids = TextNode(t)]
MetaDescription(t) == [El(Text(<<"m", "e", "t", "a">>)) EXCEPT !.name = Text(<<"d", "e", "s", "c", "r", "i", "p", "t", "i", "o", "n">>), !.content = t]
Canonical(h) == [El(Text(<<"l", "i", "n", "k">>)) EXCEPT !.rel = <<Text(<<"c", "a", "n", "o", "n", "i", "c", "a", "l">>)>>, !.href = h]
Body(kids) == [El(Text(<<"b", "o", "d", "y">>)) EXCEPT !.kids = kids]

\* The URL of the pages the analyzers are checked on one by one.
SampleUrl == Text(<<"h", "t", "t", "p", "s", ":", "/", "/", "e", "x", ".", "c", "o", "m", "/", "p", "a", "g", "e">>)

\* The state main starts an analysis in: nothing fetched yet.
Start(at, u, r) ==
    /\ pc = at
    /\ url = u
    /\ response = r
    /\ page = None
    /\ content = NoContent
    /\ soup = None
    /\ calls = <<>>
    /\ ret = [a \in {AnalyzerOrder[i] : i \in 1..Len(AnalyzerOrder)} |-> NotRun]

RECURSIVE Utf8Encode(_)
\* The bytes a server sends for the text t in UTF-8.
Utf8Encode(t) ==
    IF Len(t) = 0 THEN <<>>
    ELSE IF Len(t) > 1
    THEN Utf8Encode(SubSeq(t, 1, Len(t) \div 2)) \o Utf8Encode(SubSeq(t, Len(t) \div 2 + 1, Len(t)))
    ELSE IF t[1] < 128 THEN <<t[1]>>
    ELSE IF t[1] < 2048 THEN <<192 + (t[1] \div 64), 128 + (t[1] % 64)>>
    ELSE IF t[1] < 65536
    THEN <<224 + (t[1] \div 4096), 128 + ((t[1] \div 64) % 64), 128 + (t[1] % 64)>>
    ELSE <<240 + (t[1] \div 262144), 128 + ((t[1] \div 4096) % 64),
           128 + ((t[1] \div 64) % 64), 128 + (t[1] % 64)>>

\* The state main has reached at the analyzer at, the page fetched from u
\* being the markup text sent in UTF-8: page is the document as parsed.
StartAtMarkup(at, u, text) ==
    /\ pc = at
    /\ url = u
    /\ response = [error |-> "none", content |-> Utf8Encode(text),
                   encoding |-> Text(<<"u", "t", "f", "-", "8">>)]
    /\ content = [exc |-> "none", text |-> text]
    /\ \E parsed \in {Parse(text)} : page = parsed /\ soup = parsed
    /\ calls = <<>>
    /\ ret = [a \in {AnalyzerOrder[i] : i \in 1..Len(AnalyzerOrder)} |-> NotRun]

\* The same for the markup of the document pg.
StartAt(at, u, pg) == StartAtMarkup(at, u, DocumentMarkup(pg))

Ok200(b, encoding) == [error |-> "none", content |-> b, encoding |-> encoding]

(***************************************************************************)
(* SpecDecode: fetch_and_parse over every response body of at most         *)
(* MaxContentLen bytes of ByteAlphabet, every declared encoding, and URLs  *)
(* with and without the CJK-site hints.                                    *)
(***************************************************************************)
\* The encoding requests reads from the Content-Type header: none, a codec
\* name in either case, a name no codec has, a name that holds U+0000 or a
\* surrogate, a codec that refuses the error handler of Response.text, and
\* codecs of two-byte characters.
Utf8 == Text(<<"u", "t", "f", "-", "8">>)
Idna == Text(<<"i", "d", "n", "a">>)
DeclaredEncodings ==
    {NoEncoding, Text(<<"a", "s", "c", "i", "i">>), Utf8, Text(<<"U", "T", "F", "-", "8">>),
     Text(<<"g", "b", "k">>), Text(<<"I", "S", "O", "-", "8", "8", "5", "9", "-", "1">>),
     Text(<<"x", "-", "u", "n", "k", "n", "o", "w", "n">>),
     Utf8 \o <<0>>, Utf8 \o <<56448>>, Idna,
     Text(<<"U", "T", "F", "-", "1", "6">>), Text(<<"B", "i", "g", "5">>)}

DecodeUrls == {Text(<<"h", "t", "t", "p", ":", "/", "/", "e", "x", ".", "c", "o", "m", "/">>),
               Text(<<"h", "t", "t", "p", ":", "/", "/", "e", "x", ".", "c", "n", "/">>),
               Text(<<"h", "t", "t", "p", ":", "/", "/", "z", "h", "i", "h", "u", ".", "c", "o", "m", "/">>)}

InitDecode ==
    \E u \in DecodeUrls, b \in SeqsUpTo(ByteAlphabet, MaxContentLen),
       e \in DeclaredEncodings :
        Start("fetch", u, Ok200(b, e))

NextDecode == Fetch

SpecDecode == InitDecode /\ [][NextDecode]_vars

\* fetch_and_parse has returned.
Fetched == pc /= "fetch" /\ pc /= "start"

\* C1: whatever the bytes, the declared encoding and the URL of a response that
\* arrived, the encoding resolution yields a decoded text: no exception leaves
\* it and fetch_and_parse does not answer None.
C1_DecodingNeverFails ==
    (Fetched /\ response.error = "none") => (content.exc = "none" /\ soup /= None)

\* The case of C2: an encoding is declared, the strict decode with it raises
\* UnicodeDecodeError, and so does the next strict attempt (GBK or UTF-8).
BothStrictAttemptsFail ==
    /\ response.encoding \notin {NoEncoding, <<>>}
    /\ Decode(response.content, response.encoding, "strict").exc = "UnicodeDecodeError"
    /\ Decode(response.content, IF FetchCjkHint(url) THEN Text(<<"g", "b", "k">>) ELSE Utf8,
              "strict").exc = "UnicodeDecodeError"

\* C2 as stated: when both strict attempts fail, the text is the decode by the
\* first candidate of the priority list that decodes without error, as in the
\* path without a declared encoding.
C2_PriorityListAfterDeclared ==
    (Fetched /\ BothStrictAttemptsFail) =>
        content = fallback_decode(response.content, url)

\* C2 as amended: when both strict attempts fail, the outcome is that of
\* Response.text, the decode by the declared encoding itself under
\* errors = "replace": its text, every undecodable byte sequence replaced by
\* U+FFFD, is what is parsed; where that decode raises, fetch_and_parse
\* answers None.  The priority list is not consulted.
C2_DeclaredWithReplacement ==
    (Fetched /\ BothStrictAttemptsFail) =>
        [content |-> content, soup |-> soup]
            = ParseOrNone(Decode(response.content, response.encoding, "replace"))

\* Both strict attempts failed, and the text holds a replacement character where
\* the priority list would have decoded the byte.
C2_Witness ==
    /\ Fetched /\ BothStrictAttemptsFail
    /\ \E i \in 1..Len(content.text) : content.text[i] = ReplacementChar
    /\ content /= fallback_decode(response.content, url)

\* Both strict attempts failed and the declared codec refuses errors = "replace":
\* Response.text raised and there is no document.
ReplaceRefused ==
    /\ Fetched /\ BothStrictAttemptsFail
    /\ content.exc = "UnicodeError"
    /\ soup = None

(***************************************************************************)
(* SpecTitle: check_title over pages without a title and with a title of   *)
(* i CJK and j other characters, i + j <= MaxTitleLen, bare or padded with *)
(* blanks.                                                                 *)
(***************************************************************************)
MaxTitleLen == 72

\* The characters the input texts are made of: a CJK character, a stop word
\* of extract_key_phrases, a Latin letter and a blank.
SampleChars == [zhong |-> 20013, de |-> 30340, latin |-> 97, blank |-> 32]
Zhong == SampleChars.zhong
De == SampleChars.de
LatinA == SampleChars.latin
Blank == SampleChars.blank

\* The texts of i CJK and j other characters, i + j <= n.
MixedTexts(n) ==
    {Rep(Zhong, i) \o Rep(LatinA, j) : <<i, j>> \in {p \in (0..n) \X (0..n) : p[1] + p[2] <= n}}

\* The texts of up to n characters whose CJK characters are none, all, or
\* just at or above one in d of the length.
TextsAroundShare(n, d) ==
    {Rep(Zhong, p[2]) \o Rep(LatinA, p[1] - p[2]) :
         p \in {q \in (0..n) \X (0..n) :
                    q[2] <= q[1] /\ q[2] \in {0, q[1] \div d, q[1] \div d + 1, q[1]}}}

Padded(T) == T \cup {<<Blank>> \o t \o <<Blank, Blank>> : t \in T}

TitlePages ==
    {Document(<<Body(<<>>)>>)} \cup
    {Document(<<Title(t), Body(<<>>)>>) : t \in Padded(MixedTexts(MaxTitleLen))}

InitTitle ==
    \E pg \in TitlePages :
        StartAt("check_title", SampleUrl, pg)

NextTitle == CheckTitle

SpecTitle == InitTitle /\ [][NextTitle]_vars

\* The title of the page, as the claims measure it: its trimmed text, its
\* length and whether CJK characters are more than half of it.
PageTitles == FindAll(page.kids, {Text(<<"t", "i", "t", "l", "e">>)})
PageTitleText == GetText(PageTitles[1], <<>>)
PageTitleIsCjk == 2 * ChineseCount(PageTitleText) > Len(PageTitleText)

\* The band C3 gives a title of length n.
C3_Band(n, cjk) ==
    IF cjk
    THEN IF n < 15 THEN "FAIL" ELSE IF n < 30 \/ n > 70 THEN "WARN" ELSE "PASS"
    ELSE IF n < 30 THEN "FAIL" ELSE IF n < 50 \/ n > 65 THEN "WARN" ELSE "PASS"

\* C3: check_title prints FAIL for a missing title, else the band of the
\* title's length in its dominant language ([30,70] CJK, [50,65] Latin are
\* PASS), and it returns true exactly when that band is PASS.
C3_TitleVerdictIsPassBand ==
    ("check_title" \in {calls[i] : i \in 1..Len(calls)}) =>
        LET r == ret["check_title"]
        IN  IF PageTitles = <<>> THEN r.status = "FAIL" /\ ~r.verdict
            ELSE /\ r.status = C3_Band(Len(PageTitleText), PageTitleIsCjk)
                 /\ r.verdict <=> (r.status = "PASS")

(***************************************************************************)
(* SpecMeta: check_meta_description over pages without the tag and with a  *)
(* description of every length up to MaxDescLen, its CJK characters none,  *)
(* all, or just at or above a third of the length.                         *)
(***************************************************************************)
MaxDescLen == 202

MetaPages ==
    {Document(<<Body(<<>>)>>), Document(<<MetaDescription(<<Blank, Blank>>), Body(<<>>)>>)}
    \cup {Document(<<MetaDescription(t), Body(<<>>)>>) : t \in TextsAroundShare(MaxDescLen, 3)}

\* Pages as the server writes them: a description that ends in a character
\* reference, of 174 characters once parsed, and one that ends in a name no
\* reference has.
MetaMarkups ==
    {Text(<<"<", "m", "e", "t", "a", " ", "n", "a", "m", "e", "=", "\"", "d", "e", "s", "c", "r", "i", "p", "t", "i", "o", "n", "\"", " ", "c", "o", "n", "t", "e", "n", "t", "=", "\"">>) \o Rep(LatinA, 173) \o e \o Text(<<"\"", ">">>) :
         e \in {Text(<<"&", "l", "b", "r", "a", "c", "e", ";">>), Text(<<"&", "l", "b", "r", "a", "c", "e", ".", ";">>)}}

InitMeta ==
    \/ \E pg \in MetaPages : StartAt("check_meta_description", SampleUrl, pg)
    \/ \E text \in MetaMarkups : StartAtMarkup("check_meta_description", SampleUrl, text)

NextMeta == CheckMetaDescription

SpecMeta == InitMeta /\ [][NextMeta]_vars

PageDescriptions ==
    SelectSeq(FindAll(page.kids, {Text(<<"m", "e", "t", "a">>)}), LAMBDA e : e.name = Text(<<"d", "e", "s", "c", "r", "i", "p", "t", "i", "o", "n">>))
PageDescriptionText == StripText(PageDescriptions[1].content)

\* C4 as stated: the verdict is stricter than the banding: when
\* check_meta_description is called, there is a non-empty description length
\* (and dominant language) at which its band and its verdict disagree, a PASS
\* band with verdict false or a WARN or FAIL band with verdict true.
C4_VerdictStricterThanBand ==
    (pc = "check_meta_description") =>
        \E n \in 1..MaxDescLen, cjk \in BOOLEAN :
            (DescriptionBand(n, cjk) = "PASS") /= DescriptionVerdict(n, cjk)

\* C4 as amended: the verdict is exactly the PASS band.  Of a non-empty
\* description check_meta_description returns true iff the length is in
\* [100,200] when CJK-dominant (more than 1/3 CJK) or in [140,180] otherwise,
\* and it prints PASS iff it returns true; FAIL is below 50 / 120, WARN
\* otherwise.
C4_VerdictIsPassBand ==
    ("check_meta_description" \in {calls[i] : i \in 1..Len(calls)}
        /\ PageDescriptions /= <<>> /\ PageDescriptionText /= <<>>) =>
        LET r   == ret["check_meta_description"]
            n   == Len(PageDescriptionText)
            cjk == 3 * ChineseCount(PageDescriptionText) > n
        IN  /\ r.verdict <=> (IF cjk THEN n >= 100 /\ n <= 200 ELSE n >= 140 /\ n <= 180)
            /\ r.verdict <=> (r.status = "PASS")
            /\ (r.status = "FAIL") <=> (IF cjk THEN n < 50 ELSE n < 120)

\* A CJK-dominant description whose length, 100, is where the PASS band and the
\* true verdict both begin, with check_meta_description run on it.
C4_Witness ==
    /\ "check_meta_description" \in {calls[i] : i \in 1..Len(calls)}
    /\ PageDescriptions /= <<>>
    /\ Len(PageDescriptionText) = 100
    /\ 3 * ChineseCount(PageDescriptionText) > 100
    /\ ret["check_meta_description"].verdict
    /\ ret["check_meta_description"].status = "PASS"

(***************************************************************************)
(* SpecH1: check_h1 over pages with or without a title and with up to      *)
(* MaxH1Count H1 elements; the title and the first H1 range over the short *)
(* texts of a CJK character, a stop word and a Latin letter, and over      *)
(* texts at the length limits of an H1.                                    *)
(***************************************************************************)
MaxH1Count == 2
MaxH1Len == 4

H1Texts ==
    SeqsUpTo({Zhong, De, LatinA}, MaxH1Len)
    \cup {Rep(LatinA, 9), Rep(LatinA, 10), Rep(LatinA, 100), Rep(LatinA, 101)}

H1TitleTexts == SeqsUpTo({Zhong, LatinA}, MaxH1Len) \cup {<<De, Zhong, De, LatinA, Zhong>>}

H1(t) == [El(Text(<<"h", "1">>)) EXCEPT !.kids = TextNode(t)]

H1Pages ==
    LET heads  == {<<>>} \cup {<<Title(t)>> : t \in H1TitleTexts}
        bodies == {<<>>} \cup
                  {<<H1(t)>> \o Rep(H1(<<LatinA, Zhong>>), k) :
                       t \in H1Texts, k \in 0..(MaxH1Count - 1)}
    IN  {Document(h \o <<Body(b)>>) : h \in heads, b \in bodies}

InitH1 ==
    \E pg \in H1Pages : StartAt("check_h1", SampleUrl, pg)

NextH1 == CheckH1

SpecH1 == InitH1 /\ [][NextH1]_vars

Ran(analyzer) == analyzer \in {calls[i] : i \in 1..Len(calls)}

\* C5: check_h1 returns true iff the page holds exactly one <h1>, whatever the
\* title and the H1 texts are and whatever it found about their relation.
C5_H1VerdictIffExactlyOne ==
    Ran("check_h1") =>
        (ret["check_h1"].verdict <=>
            Cardinality({i \in 1..Len(Descendants(page.kids)) :
                             Descendants(page.kids)[i].tag = Text(<<"h", "1">>)}) = 1)

\* check_h1 ran on a page with a title and a single H1 that is too short and
\* only weakly related to the title, and returned true.
C5_Witness ==
    /\ Ran("check_h1")
    /\ Len(FindAll(page.kids, {Text(<<"h", "1">>)})) = 1
    /\ FindAll(page.kids, {Text(<<"t", "i", "t", "l", "e">>)}) /= <<>>
    /\ ret["check_h1"].detail.relation = "weak"
    /\ ret["check_h1"].detail.each = <<"WARN">>
    /\ ret["check_h1"].verdict

(***************************************************************************)
(* SpecImg: check_image_alt over pages of up to MaxImages images, each     *)
(* with no alt, an empty alt or a non-empty alt.                           *)
(***************************************************************************)
MaxImages == 7

Img(alt) == [El(Text(<<"i", "m", "g">>)) EXCEPT !.alt = alt]

ImgPages ==
    {Document(<<Body([i \in 1..Len(alts) |-> Img(alts[i])])>>) :
         alts \in SeqsUpTo({<<>>, <<LatinA>>}, MaxImages)}

InitImg ==
    \E pg \in ImgPages : StartAt("check_image_alt", SampleUrl, pg)

NextImg == CheckImageAlt

SpecImg == InitImg /\ [][NextImg]_vars

PageImages == FindAll(page.kids, {Text(<<"i", "m", "g">>)})
PageImagesMissingAlt == SelectSeq(PageImages, LAMBDA e : e.alt = <<>>)

\* C6: with n images of which m lack a non-empty alt: n = 0 is INFO with
\* verdict true; m = 0 is PASS; 0 < 100m/n < 20 is the minor WARN;
\* 20 <= 100m/n < 50 the moderate WARN; 100m/n >= 50 is FAIL; and the verdict
\* is true iff m = 0.  (100m/n < k is 100m < k*n.)
C6_ImageAltBands ==
    Ran("check_image_alt") =>
        LET r == ret["check_image_alt"]
            n == Len(PageImages)
            m == Len(PageImagesMissingAlt)
        IN  /\ r.verdict <=> (m = 0)
            /\ n = 0 => r.status = "INFO"
            /\ (n > 0 /\ m = 0) => r.status = "PASS"
            /\ (m > 0 /\ 100 * m < 20 * n) => (r.status = "WARN" /\ r.detail = "minor")
            /\ (20 * n <= 100 * m /\ 100 * m < 50 * n) =>
                   (r.status = "WARN" /\ r.detail = "moderate")
            /\ (m > 0 /\ 100 * m >= 50 * n) => r.status = "FAIL"

\* Exactly one of five images lacks its alt (20%): the moderate WARN.
C6_Witness ==
    /\ Ran("check_image_alt")
    /\ Len(PageImages) = 5
    /\ Len(PageImagesMissingAlt) = 1
    /\ ret["check_image_alt"].detail = "moderate"

(***************************************************************************)
(* SpecCanonical: check_canonical over pages without a canonical link,     *)
(* with one, and with two, and current URLs and hrefs assembled from a     *)
(* scheme prefix, a host, a path, up to MaxTrailingSlashes trailing        *)
(* slashes and a tail (parameters, query or fragment); and hrefs padded    *)
(* with white space, or with a bracket in the host, which urlparse accepts *)
(* only around an IP address.                                              *)
(***************************************************************************)
MaxTrailingSlashes == 2

UrlPrefixes == {<<>>, Text(<<"/", "/">>), Text(<<"h", "t", "t", "p", ":", "/", "/">>), Text(<<"h", "t", "t", "p", "s", ":", "/", "/">>), Text(<<"H", "T", "T", "P", "S", ":", "/", "/">>), Text(<<"h", "t", "t", "p", "s", ":">>)}
UrlHosts == {Text(<<"e", "x", ".", "c", "o", "m">>), Text(<<"a", ".", "c", "n">>)}
UrlBasePaths == {<<>>, Text(<<"/", "p", "a", "g", "e">>), Text(<<"/", "a", "/", "b">>)}
UrlTails == {<<>>, Text(<<"?", "x", "=", "1">>), Text(<<"#", "t", "o", "p">>), Text(<<";", "p">>)}

\* The URL text of its parts.
Assemble(prefix, host, base, slashes, tail) ==
    prefix \o host \o base \o Rep(Slash, slashes) \o tail

\* The ends a URL may have after its host and base path: trailing slashes and
\* a tail, parameters only where there is a path for them to belong to.
UrlEnds(b) ==
    {e \in (0..MaxTrailingSlashes) \X UrlTails :
         e[2] = Text(<<";", "p">>) => (b /= <<>> \/ e[1] > 0)}

AssembledUrls ==
    {Assemble(x, h, b, e[1], e[2]) :
         <<x, h, b, e>> \in
             {q \in UrlPrefixes \X UrlHosts \X UrlBasePaths
                        \X ((0..MaxTrailingSlashes) \X UrlTails) :
                  q[4] \in UrlEnds(q[3])}}

CurrentUrls ==
    {Assemble(Text(<<"h", "t", "t", "p", "s", ":", "/", "/">>), h, b, k, <<>>) :
         h \in UrlHosts, b \in UrlBasePaths, k \in 0..1}
    \cup {Text(<<"h", "t", "t", "p", ":", "/", "/", "e", "x", ".", "c", "o", "m", "/", "p", "a", "g", "e", "?", "x", "=", "1">>)}

Hrefs == AssembledUrls \cup {Text(<<" ">>) \o Text(<<"h", "t", "t", "p", "s", ":", "/", "/", "e", "x", ".", "c", "o", "m", "/", "p", "a", "g", "e", "/">>) \o Text(<<" ", " ">>),
                             <<>>, Text(<<" ">>),
                             <<12>> \o Text(<<"h", "t", "t", "p", "s", ":", "/", "/", "e", "x", ".", "c", "o", "m", "/", "p", "a", "g", "e">>),
                             Text(<<"h", "t", "t", "p", "s", ":", "/", "/", "[", "e", "x", ".", "c", "o", "m", "/", "p", "a", "g", "e">>),
                             Text(<<"h", "t", "t", "p", "s", ":", "/", "/", "[", ":", ":", "1", "]", "/", "p", "a", "g", "e">>),
                             Text(<<"h", "t", "t", "p", "s", ":", "/", "/", "e", "x", ".", "c", "o", "m">>) \o <<65295>> \o Text(<<"/", "p", "a", "g", "e">>),
                             Text(<<"h", "t", "t", "p", "s", ":", "/", "/", "e">>) \o <<8490>> \o Text(<<".", "c", "o", "m", "/", "p", "a", "g", "e">>)}

CanonicalPages ==
    {Document(<<Body(<<>>)>>)}
    \cup {Document(<<Canonical(h), Body(<<>>)>>) : h \in Hrefs}
    \cup {Document(<<Canonical(h), Canonical(Text(<<"h", "t", "t", "p", "s", ":", "/", "/", "e", "x", ".", "c", "o", "m", "/", "p", "a", "g", "e">>)), Body(<<>>)>>) :
              h \in {<<>>, Text(<<"h", "t", "t", "p", "s", ":", "/", "/", "a", ".", "c", "n", "/">>), Text(<<"e", "x", ".", "c", "o", "m", "/", "p", "a", "g", "e", "/">>)}}

\* Pages as the server writes them: the colon of the href is a character
\* reference, with and without its semicolon.
CanonicalMarkups ==
    {Text(<<"<", "l", "i", "n", "k", " ", "r", "e", "l", "=", "\"", "c", "a", "n", "o", "n", "i", "c", "a", "l", "\"", " ", "h", "r", "e", "f", "=", "\"", "h", "t", "t", "p", "s">>) \o e \o Text(<<"/", "/", "e", "x", ".", "c", "o", "m", "/", "p", "a", "g", "e", "\"", ">">>) : e \in {Text(<<"&", "c", "o", "l", "o", "n", ";">>), Text(<<"&", "c", "o", "l", "o", "n">>)}}

InitCanonical ==
    \/ \E u \in CurrentUrls, pg \in CanonicalPages : StartAt("check_canonical", u, pg)
    \/ \E u \in CurrentUrls, text \in CanonicalMarkups :
           StartAtMarkup("check_canonical", u, text)

NextCanonical == CheckCanonical

SpecCanonical == InitCanonical /\ [][NextCanonical]_vars

PageCanonicalLinks ==
    SelectSeq(FindAll(page.kids, {Text(<<"l", "i", "n", "k">>)}), LAMBDA e : HasToken(e.rel, Text(<<"c", "a", "n", "o", "n", "i", "c", "a", "l">>)))

\* The URLs that differ from u in nothing but the scheme prefix, the number of
\* trailing slashes of the path, and the tail.
SameHostAndPath(u) ==
    UNION {{Assemble(x2, hb[1], hb[2], e2[1], e2[2]) :
                x2 \in UrlPrefixes, e2 \in UrlEnds(hb[2])} :
           hb \in {q \in UrlHosts \X UrlBasePaths :
                      \E x \in UrlPrefixes, e \in UrlEnds(q[2]) :
                          u = Assemble(x, q[1], q[2], e[1], e[2])}}

\* C7: check_canonical returns true exactly when the page has a canonical link
\* whose trimmed href is non-empty and names the host and path of the current
\* URL, the scheme dropped and the trailing slashes of the path removed; a
\* missing link is a WARN and an empty href a FAIL, both with verdict false.
C7_CanonicalVerdict ==
    Ran("check_canonical") =>
        LET r == ret["check_canonical"]
        IN  IF PageCanonicalLinks = <<>>
            THEN r.status = "WARN" /\ ~r.verdict
            ELSE IF StripText(PageCanonicalLinks[1].href) = <<>>
            THEN r.status = "FAIL" /\ ~r.verdict
            ELSE r.verdict <=>
                     StripText(PageCanonicalLinks[1].href) \in SameHostAndPath(url)

\* The canonical link names the current page with another scheme and other
\* trailing slashes, and check_canonical returned true.
C7_Witness ==
    /\ Ran("check_canonical")
    /\ url = Text(<<"h", "t", "t", "p", "s", ":", "/", "/", "e", "x", ".", "c", "o", "m", "/", "p", "a", "g", "e", "/">>)
    /\ PageCanonicalLinks /= <<>>
    /\ PageCanonicalLinks[1].href = Text(<<"h", "t", "t", "p", ":", "/", "/", "e", "x", ".", "c", "o", "m", "/", "p", "a", "g", "e", "/", "/", "#", "t", "o", "p">>)
    /\ ret["check_canonical"].verdict

(***************************************************************************)
(* SpecContent: check_initial_content over documents without a body and    *)
(* over bodies made of a block of text, an optional structural signal or   *)
(* navigation block, and up to MaxParagraphs paragraphs, in the body       *)
(* itself or inside a <nav>.                                               *)
(***************************************************************************)
MaxParagraphs == 3

Div(n) == [El(Text(<<"d", "i", "v">>)) EXCEPT !.kids = TextNode(Rep(LatinA, n))]
P(n) == [El(Text(<<"p">>)) EXCEPT !.kids = TextNode(Rep(LatinA, n))]
Inside(tag, kids) == [El(tag) EXCEPT !.kids = kids]

TextBlocks == {<<Div(n)>> : n \in {0, 60, 99, 100, 150, 199, 200, 299, 300, 301}}

SignalBlocks ==
    { <<>>,
      <<El(Text(<<"a", "r", "t", "i", "c", "l", "e">>))>>,
      <<[El(Text(<<"s", "p", "a", "n">>)) EXCEPT !.class = <<Text(<<"w", "i", "d", "e">>), Text(<<"B", "l", "o", "g", "-", "P", "o", "s", "t">>)>>]>>,
      <<Inside(Text(<<"h", "e", "a", "d", "e", "r">>), <<El(Text(<<"m", "a", "i", "n">>))>>)>>,
      <<[Div(120) EXCEPT !.class = <<Text(<<"m", "e", "n", "u">>)>>]>>,
      <<[Div(120) EXCEPT !.id = Text(<<"n", "a", "v">>)]>> }

ParagraphBlocks ==
    {Rep(P(n), k) : n \in {50, 51}, k \in 0..MaxParagraphs}
    \cup {<<Inside(Text(<<"n", "a", "v">>), Rep(P(51), k))>> : k \in 1..MaxParagraphs}

NavAndScriptOnly ==
    Document(<<Body(<<Inside(Text(<<"n", "a", "v">>), <<Div(400)>>), [El(Text(<<"s", "c", "r", "i", "p", "t">>)) EXCEPT !.kids = <<StringNode(StringTag, Rep(LatinA, 400))>>]>>)>>)

ContentPages ==
    {Document(<<Body(t \o g \o ps)>>) :
         t \in TextBlocks, g \in SignalBlocks, ps \in ParagraphBlocks}
    \cup {Document(<<>>), Document(<<Title(Rep(LatinA, 55)), Div(400)>>), NavAndScriptOnly}

\* A body the parser accepts that holds a marked section, <![if a><![zz]>:
\* bs4 writes the declaration out as <?if a><![zz?>, in which the parser
\* finds a marked section of a name it does not know.
RejectedWhenParsedAgain == Text(<<"<", "!", "[", "i", "f", " ", "a", ">", "<", "!", "[", "z", "z", "]", ">">>)

ContentMarkups ==
    {Text(<<"<", "b", "o", "d", "y", ">">>) \o t \o RejectedWhenParsedAgain \o Text(<<"<", "/", "b", "o", "d", "y", ">">>) :
         t \in {<<>>, Text(<<"<", "d", "i", "v", " ", "c", "l", "a", "s", "s", "=", "\"", "c", "o", "n", "t", "e", "n", "t", "\"", ">">>) \o Rep(LatinA, 300) \o Text(<<"<", "/", "d", "i", "v", ">">>)}}

InitContent ==
    \/ \E pg \in ContentPages : StartAt("check_initial_content", SampleUrl, pg)
    \/ \E text \in ContentMarkups :
           StartAtMarkup("check_initial_content", SampleUrl, text)

NextContent == CheckInitialContent

SpecContent == InitContent /\ [][NextContent]_vars

PageBodies == FindAll(page.kids, {Text(<<"b", "o", "d", "y">>)})

\* charLength: the visible text length of the stripped copy of the body.
PageCharLength ==
    Len(Join(StrippedStrings(
                 DecomposeEach(Decompose(<<PageBodies[1]>>,
                                         [kind |-> "tags", name |-> RemovedTags]),
                               nav_selectors, 1)),
             <<Blank>>))

\* The meaningful paragraphs and the structural signal of the original body.
PageMeaningful == Len(MeaningfulParagraphs(PageBodies[1]))
PageHasStructure == HasContentStructure(PageBodies[1])

\* The status the first matching rule gives; the no-body rule and the final
\* rule are parameters.
C8_Status(no_body, final) ==
    IF PageBodies = <<>> THEN no_body
    ELSE IF PageCharLength < 100 THEN "FAIL"
    ELSE IF PageCharLength < 300 /\ PageMeaningful < 2 THEN "WARN"
    ELSE IF PageHasStructure \/ PageMeaningful >= 2 THEN "PASS"
    ELSE final

\* C8: check_initial_content decides by the first matching rule: no body
\* FAIL; charLength < 100 FAIL; charLength < 300 with fewer than 2 meaningful
\* paragraphs WARN; a structural signal or 2 meaningful paragraphs PASS;
\* otherwise WARN below 200 characters and PASS from 200; and the verdict is
\* true exactly for PASS.  A call that an exception leaves has decided
\* nothing.
C8_FirstMatchingRule ==
    Ran("check_initial_content") =>
        LET r == ret["check_initial_content"]
        IN  /\ r.status = C8_Status("FAIL", IF PageCharLength < 200 THEN "WARN" ELSE "PASS")
            /\ r.verdict <=> (r.status = "PASS")

(***************************************************************************)
(* Spec: main, from the prompt about blocked sites to the last analyzer,   *)
(* over URLs with and without blocked sites, responses that fail, decode   *)
(* or do not decode, pages whose H1 and image sit inside an element        *)
(* check_initial_content removes from its working copy, and pages as the   *)
(* server writes them.                                                     *)
(***************************************************************************)
MainUrls == {Text(<<"h", "t", "t", "p", "s", ":", "/", "/", "e", "x", ".", "c", "o", "m", "/", "p", "a", "g", "e">>), Text(<<"h", "t", "t", "p", "s", ":", "/", "/", "w", "w", "w", ".", "B", "B", "C", ".", "c", "o", "m", "/", "n", "e", "w", "s">>), Text(<<"h", "t", "t", "p", ":", "/", "/", "e", "x", ".", "c", "n", "/">>),
             Text(<<"h", "t", "t", "p", "s", ":", "/", "/", "g", "o", "o", "g", "l", "e", ".", "c", "o", "m", "/", "w", "i", "k", "i", "p", "e", "d", "i", "a", ".", "o", "r", "g">>),
             Text(<<"h", "t", "t", "p", "s", ":", "/", "/", "f", "a", "c", "e", "b", "o", "o">>) \o <<8490>> \o Text(<<".", "c", "o", "m", "/">>)}

MainHeads ==
    {<<>>,
     <<Title(Rep(LatinA, 55)), Canonical(Text(<<"h", "t", "t", "p", "s", ":", "/", "/", "[", "e", "x", ".", "c", "o", "m", "/", "p", "a", "g", "e">>))>>,
     <<Title(Rep(LatinA, 55)), MetaDescription(Rep(LatinA, 150)),
       Canonical(Text(<<"h", "t", "t", "p", "s", ":", "/", "/", "e", "x", ".", "c", "o", "m", "/", "p", "a", "g", "e", "/">>))>>}

MainBodies ==
    {<<Inside(w, <<H1(<<LatinA>>), Img(alt)>>)>> \o t :
         w \in {Text(<<"h", "e", "a", "d", "e", "r">>), Text(<<"n", "a", "v">>), Text(<<"f", "o", "r", "m">>), Text(<<"d", "i", "v">>)},
         alt \in {<<>>, <<LatinA>>},
         t \in {<<>>, <<Div(300)>>, <<Div(150), El(Text(<<"a", "r", "t", "i", "c", "l", "e">>))>>,
                <<[Inside(Text(<<"d", "i", "v">>), <<H1(Rep(LatinA, 20))>>) EXCEPT !.class = <<Text(<<"s", "i", "d", "e", "b", "a", "r">>)>>]>>}}

MainPages ==
    {Document(h \o <<Body(b)>>) : h \in MainHeads, b \in MainBodies}
    \cup {Document(<<Title(Rep(LatinA, 40))>>)}

\* Pages as the server writes them: one whose body the parser rejects when
\* check_initial_content parses it again, and one with character references,
\* of which the canonical link names the page, and a tag in capitals beyond
\* ASCII.
MainMarkups ==
    {Text(<<"<", "t", "i", "t", "l", "e", ">", "t", "<", "/", "t", "i", "t", "l", "e", ">", "<", "b", "o", "d", "y", ">", "<", "h", "1", ">", "a", "<", "/", "h", "1", ">">>) \o RejectedWhenParsedAgain \o Text(<<"<", "/", "b", "o", "d", "y", ">">>),
     Text(<<"<", "t", "i", "t", "l", "e", ">">>) \o Rep(LatinA, 55) \o Text(<<"<", "/", "t", "i", "t", "l", "e", ">", "<", "m", "e", "t", "a", " ", "n", "a", "m", "e", "=", "\"", "d", "e", "s", "c", "r", "i", "p", "t", "i", "o", "n", "\"", " ", "c", "o", "n", "t", "e", "n", "t", "=", "\"">>) \o Rep(LatinA, 173) \o Text(<<"&", "l", "b", "r", "a", "c", "e", ";", "\"", ">", "<", "l", "i", "n", "k", " ", "r", "e", "l", "=", "\"", "c", "a", "n", "o", "n", "i", "c", "a", "l", "\"", " ", "h", "r", "e", "f", "=", "\"", "h", "t", "t", "p", "s", "&", "c", "o", "l", "o", "n", ";", "/", "/", "e", "x", ".", "c", "o", "m", "/", "p", "a", "g", "e", "\"", ">", "<", "b", "o", "d", "y", ">", "<", "h", "1", ">", "a", "<", "/", "h", "1", ">", "<">>)
       \o <<80, 304>> \o Text(<<" ", "c", "l", "a", "s", "s", "=", "\"", "c", "o", "n", "t", "e", "n", "t", "\"", ">">>) \o Rep(LatinA, 300) \o Text(<<"<", "/">>) \o <<80, 304>> \o Text(<<">", "<", "/", "b", "o", "d", "y", ">">>)}

\* What the server answers: nothing in time, bytes that are no markup, with
\* a declared encoding, an unknown one, one that holds U+0000, one that
\* Response.text cannot decode with, or none, and the markup of the pages
\* in UTF-8, declared so or, for the shortest page, not declared at all.
MainResponses ==
    {[error |-> "Timeout", content |-> <<>>, encoding |-> NoEncoding],
     Ok200(<<LatinA>>, Utf8), Ok200(<<LatinA>>, Text(<<"x", "-", "u", "n", "k", "n", "o", "w", "n">>)), Ok200(<<128>>, NoEncoding),
     Ok200(<<LatinA>>, Utf8 \o <<0>>), Ok200(<<128>>, Idna),
     Ok200(Utf8Encode(DocumentMarkup(Document(<<Title(Rep(LatinA, 40))>>))), NoEncoding)}
    \cup {Ok200(Utf8Encode(DocumentMarkup(pg)), Utf8) : pg \in MainPages}
    \cup {Ok200(Utf8Encode(text), Utf8) : text \in MainMarkups}

Init ==
    \E u \in MainUrls, r \in MainResponses : Start("start", u, r)

Next ==
    \/ ConfirmBlockedSites
    \/ Fetch
    \/ CheckInitialContent
    \/ CheckTitle
    \/ CheckMetaDescription
    \/ CheckH1
    \/ CheckImageAlt
    \/ CheckCanonical

Spec == Init /\ [][Next]_vars

\* C9: check_initial_content leaves the caller's document as it was parsed,
\* whatever it decided and also when an exception left it, and each later
\* analyzer that runs returns what it returns on the document as parsed.
C9_CallerDocumentUnchanged ==
    Ran("check_initial_content") =>
        /\ soup = page
        /\ Ran("check_title") => ret["check_title"] = check_title(page)
        /\ Ran("check_meta_description") =>
               ret["check_meta_description"] = check_meta_description(page)
        /\ Ran("check_h1") => ret["check_h1"] = check_h1(page)
        /\ Ran("check_image_alt") => ret["check_image_alt"] = check_image_alt(page)
        /\ Ran("check_canonical") => ret["check_canonical"] = check_canonical(page, url)

\* main is done with a page whose only H1 and only image sit inside an element
\* the working copy lost: the content check failed, and the H1 and the image
\* were still found.
C9_Witness ==
    /\ pc = "done"
    /\ Ran("check_canonical")
    /\ \E i \in 1..Len(Descendants(page.kids)) :
           LET e == Descendants(page.kids)[i]
           IN  /\ e.tag \in {Text(<<"h", "e", "a", "d", "e", "r">>), Text(<<"n", "a", "v">>), Text(<<"f", "o", "r", "m">>)}
               /\ FindAll(e.kids, {Text(<<"h", "1">>)}) = FindAll(page.kids, {Text(<<"h", "1">>)})
               /\ FindAll(e.kids, {Text(<<"i", "m", "g">>)}) = FindAll(page.kids, {Text(<<"i", "m", "g">>)})
    /\ ret["check_initial_content"].status = "FAIL"
    /\ ret["check_h1"].verdict
    /\ ret["check_image_alt"].status = "FAIL"

\* C10: no analyzer runs before fetch_and_parse has returned; none runs when
\* it returned None; otherwise the six run once each in the order of
\* AnalyzerOrder, and main ends only after the last one, whatever the earlier
\* ones returned.
C10_AnalyzersInOrder ==
    /\ pc \in {"start", "fetch"} => calls = <<>>
    /\ soup = None => calls = <<>>
    /\ Len(calls) <= Len(AnalyzerOrder)
    /\ calls = SubSeq(AnalyzerOrder, 1, Len(calls))
    /\ (pc \in {"done", "raised"} /\ soup /= None) => calls = AnalyzerOrder
    /\ pc \notin {"start", "fetch", "done", "raised"} => pc = AnalyzerOrder[Len(calls) + 1]

\* C11: whenever check_initial_content decides by its final rule ("needs
\* further check"), the visible text has at least 300 characters, so the rule
\* returns true and never its outcome for fewer than 200 characters; and
\* check_initial_content returns false only by the no-body rule, the rule for
\* fewer than 100 characters, or the rule for fewer than 300 characters with
\* fewer than 2 meaningful paragraphs (a call an exception leaves returns
\* nothing).
C11_FinalRuleOnlyFrom300 ==
    Ran("check_initial_content") =>
        LET r == ret["check_initial_content"]
        IN  /\ r.detail = "needs_further_check" =>
                   (r.text_length >= 300 /\ PageCharLength >= 300 /\ r.verdict)
            /\ (r.status /= "RAISED" /\ ~r.verdict) =>
                   /\ r.detail \in {"no_body", "very_little_text", "thin_content"}
                   /\ \/ PageBodies = <<>>
                      \/ PageCharLength < 100
                      \/ (PageCharLength < 300 /\ PageMeaningful < 2)

\* The final rule decided a page of exactly 300 visible characters, without a
\* structural signal and with a single meaningful paragraph at most.
C11_Witness ==
    /\ Ran("check_initial_content")
    /\ ret["check_initial_content"].detail = "needs_further_check"
    /\ ret["check_initial_content"].text_length = 300
    /\ PageMeaningful < 2
    /\ ~PageHasStructure

=============================================================================
